---- MODULE Spec2Model ----
(***************************************************************************)
(* AICS interchange pipeline of crush-session-explorer:                    *)
(*   import side  : ImportFromAICS -> ValidateArchive -> ConvertToDBFormat *)
(*   export side  : ExportToAICS (convertSession / convertMessage)         *)
(*                                                                         *)
(* Go values are represented as follows.                                   *)
(*   string          a TLA+ string (ids, roles, versions) or, for text     *)
(*                   whose prefix matters, a sequence of code points       *)
(*   *T (pointer)    <<>> for nil, <<v>> for a pointer to v                *)
(*   time.Time       [wall, off]: wall clock reading and zone offset, in   *)
(*                   the same unit; the instant is wall - off              *)
(*   timestamp text  [kind, wall, off]: the layout the text is written in  *)
(*                   and the reading / offset it spells                    *)
(*   error           [msg, sidx, sid, midx, mid]: the format string and    *)
(*                   the arguments it is filled with                       *)
(***************************************************************************)
EXTENDS Integers, Sequences, FiniteSets, TLC

VARIABLES data, archive, ierr, verr, out, src, pc,
          xerr,            \* the error of the last export call
          cid,             \* the clientID argument of the individual-file export
          fs,              \* what the file system does to each session's file
          disk,            \* the files on disk: path -> content
          exportedFiles,   \* the paths ExportSessionsIndividually returns
          clientFile,      \* the content of the client-id file, if it exists
          proc,            \* the export-aics invocations and where each stands
          uuids,           \* how many identifiers uuid has handed out
          cmd              \* a command in progress: flags, locals, what it returned

\* The state of the individual-file export and of the client identifier.
batchVars == <<cid, fs, disk, exportedFiles>>

clientVars == <<clientFile, proc, uuids>>

vars == <<data, archive, ierr, verr, out, src, pc, xerr, batchVars, clientVars, cmd>>

(***************************************************************************)
(* Bounds                                                                  *)
(***************************************************************************)
MaxSessions == 2

MaxMessages == 2

MaxParts == 2

MaxWall == 2

\* The number of export-aics invocations.
MaxProcs == 2

(***************************************************************************)
(* Program constants                                                       *)
(***************************************************************************)
FormatVersion == "1.0"

Nil == <<>>

Ptr(v) == <<v>>

Deref(p) == p[1]

(***************************************************************************)
(* Errors                                                                  *)
(***************************************************************************)
NoErr == [msg |-> "nil", sidx |-> <<>>, sid |-> <<>>, midx |-> <<>>, mid |-> <<>>]

Errorf(m, sidx, sid, midx, mid) ==
    [msg |-> m, sidx |-> sidx, sid |-> sid, midx |-> midx, mid |-> mid]

(***************************************************************************)
(* ValidateArchive                                                         *)
(***************************************************************************)
\* The three checks of one message, in the order of the loop body.
validateMessage_roleUnchecked(sid, j, msg) ==
    IF msg.ID = "" THEN
        Errorf("session %s, message %d: missing ID", <<>>, <<sid>>, <<j>>, <<>>)
    ELSE IF Len(msg.Content) = 0 THEN
        Errorf("session %s, message %s: no content", <<>>, <<sid>>, <<>>, <<msg.ID>>)
    ELSE NoErr

validateMessage(sid, j, msg) ==
    IF msg.ID = "" THEN
        Errorf("session %s, message %d: missing ID", <<>>, <<sid>>, <<j>>, <<>>)
    ELSE IF msg.Role = "" THEN
        Errorf("session %s, message %s: missing role", <<>>, <<sid>>, <<>>, <<msg.ID>>)
    ELSE IF Len(msg.Content) = 0 THEN
        Errorf("session %s, message %s: no content", <<>>, <<sid>>, <<>>, <<msg.ID>>)
    ELSE NoErr

\* for j, msg := range session.Messages: the first error met from position k on.
\* k is the 1-based position; the reported index is the 0-based Go index.
RECURSIVE validateMessages(_, _, _)
validateMessages(sid, msgs, k) ==
    IF k > Len(msgs) THEN NoErr
    ELSE LET e == validateMessage(sid, k - 1, msgs[k])
         IN  IF e # NoErr THEN e ELSE validateMessages(sid, msgs, k + 1)

\* The body of the session loop for the session at 0-based index i.
validateSession_idAfterMessages(i, session) ==
    IF Len(session.Messages) = 0 THEN
        Errorf("session %s: no messages", <<>>, <<session.ID>>, <<>>, <<>>)
    ELSE IF session.ID = "" THEN
        Errorf("session %d: missing ID", <<i>>, <<>>, <<>>, <<>>)
    ELSE validateMessages(session.ID, session.Messages, 1)

validateSession_emptyAllowed(i, session) ==
    IF session.ID = "" THEN
        Errorf("session %d: missing ID", <<i>>, <<>>, <<>>, <<>>)
    ELSE validateMessages(session.ID, session.Messages, 1)

validateSession(i, session) ==
    IF session.ID = "" THEN
        Errorf("session %d: missing ID", <<i>>, <<>>, <<>>, <<>>)
    ELSE IF Len(session.Messages) = 0 THEN
        Errorf("session %s: no messages", <<>>, <<session.ID>>, <<>>, <<>>)
    ELSE validateMessages(session.ID, session.Messages, 1)

\* for i, session := range archive.Log.Sessions
RECURSIVE validateSessions(_, _)
validateSessions(sessions, k) ==
    IF k > Len(sessions) THEN NoErr
    ELSE LET e == validateSession(k - 1, sessions[k])
         IN  IF e # NoErr THEN e ELSE validateSessions(sessions, k + 1)

ValidateArchiveFn(a) ==
    IF a.Version = "" THEN
        Errorf("missing version field", <<>>, <<>>, <<>>, <<>>)
    ELSE IF a.Version # FormatVersion THEN
        Errorf("unsupported version: %s (expected: %s)", <<>>, <<>>, <<>>, <<>>)
    ELSE IF a.Creator.Name = "" THEN
        Errorf("missing creator name", <<>>, <<>>, <<>>, <<>>)
    ELSE IF Len(a.Log.Sessions) = 0 THEN
        Errorf("archive contains no sessions", <<>>, <<>>, <<>>, <<>>)
    ELSE validateSessions(a.Log.Sessions, 1)

\* One call of ValidateArchive(archive *Archive): the archive the pointer
\* refers to after the call, and the error returned.  The function only reads
\* through the pointer.
ValidateArchiveCall_defaultsVersion(a) ==
    LET b == IF a.Version = "" THEN [a EXCEPT !.Version = FormatVersion] ELSE a
    IN  [archive |-> b, err |-> ValidateArchiveFn(b)]

ValidateArchiveCall(a) ==
    [archive |-> a, err |-> ValidateArchiveFn(a)]

(***************************************************************************)
(* Text: a string as the sequence of its code points.                      *)
(***************************************************************************)
\* strings.HasPrefix
HasPrefix(s, prefix) ==
    /\ Len(s) >= Len(prefix)
    /\ SubSeq(s, 1, Len(prefix)) = prefix

\* The literals of export.go:125 and :127, one code point each.
ToolCallMarker == <<"U+1F527">>

ToolResultMarker == <<"U+1F4CB">>

\* The literals of the import converter (lines 118-123), four code points each.
ImportToolCallMarker == <<"U+00F0", "U+0178", "U+201D", "U+00A7">>

ImportToolResultMarker == <<"U+00F0", "U+0178", "U+201C", "U+2039">>

Space == <<" ">>

(***************************************************************************)
(* time.Time and timestamp text                                            *)
(***************************************************************************)
Time(wall, off) == [wall |-> wall, off |-> off]

\* The instant a time.Time denotes (what Equal / After / Before compare).
Instant(t) == t.wall - t.off

\* t.After(u)
After(t, u) == Instant(t) > Instant(u)

TsText(kind, wall, off) == [kind |-> kind, wall |-> wall, off |-> off]

\* The instant an RFC3339 text denotes to a reader.
TextInstant(ts) == ts.wall - ts.off

\* time.Parse(layout, ts): <<>> on error, <<t>> on success.  The RFC3339 layout
\* takes a numeric offset or Z and tolerates a fractional second; the zone-less
\* layouts read the wall clock as UTC.
timeParse(layout, ts) ==
    CASE layout \in {"RFC3339", "RFC3339Nano"} ->
            IF ts.kind \in {"rfc3339", "rfc3339frac"}
            THEN Ptr(Time(ts.wall, ts.off)) ELSE Nil
      [] layout = "2006-01-02T15:04:05Z" ->
            IF ts.kind = "rfc3339" /\ ts.off = 0
            THEN Ptr(Time(ts.wall, 0)) ELSE Nil
      [] layout = "2006-01-02 15:04:05" ->
            IF ts.kind = "sql" THEN Ptr(Time(ts.wall, 0)) ELSE Nil
      [] layout = "2006-01-02T15:04:05" ->
            IF ts.kind = "tnozone" THEN Ptr(Time(ts.wall, 0)) ELSE Nil
      [] layout = "RFC1123" ->
            IF ts.kind = "rfc1123" THEN Ptr(Time(ts.wall, ts.off)) ELSE Nil
      [] layout = "RFC822" ->
            IF ts.kind = "rfc822" THEN Ptr(Time(ts.wall, ts.off)) ELSE Nil
      [] OTHER -> Nil

\* The layouts parseTimestamp tries, in order.
timestampLayouts ==
    << "RFC3339", "RFC3339Nano", "2006-01-02T15:04:05Z", "2006-01-02 15:04:05",
       "2006-01-02T15:04:05", "RFC1123", "RFC822" >>

RECURSIVE firstParse(_, _)
firstParse(ts, k) ==
    IF k > Len(timestampLayouts) THEN Nil
    ELSE LET t == timeParse(timestampLayouts[k], ts)
         IN  IF t # Nil THEN t ELSE firstParse(ts, k + 1)

parseTimestamp(ts) ==
    IF ts.kind = "empty" THEN Nil ELSE firstParse(ts, 1)

\* t.Format("2006-01-02T15:04:05Z"): the wall clock fields of t in t's own
\* zone, followed by the literal letter Z.  Read back as RFC3339 the text
\* spells that wall clock at offset zero.
formatZ(t) == TsText("rfc3339", t.wall, 0)

(***************************************************************************)
(* Export: db records -> archive                                           *)
(***************************************************************************)
\* The error convertMessage returns with its message: always nil.
convertMessageErr_requiresRole(dbMsg) ==
    IF dbMsg.Role = "" THEN Errorf("missing role", <<>>, <<>>, <<>>, <<>>) ELSE NoErr

convertMessageErr(dbMsg) == NoErr

contentType_callOnly(part) ==
    IF Len(part) > 0 /\ HasPrefix(part, ToolCallMarker) THEN "tool_call" ELSE "text"

\* The type tag convertMessage gives a fragment.
contentType(part) ==
    IF Len(part) > 0 /\ HasPrefix(part, ToolCallMarker) THEN "tool_call"
    ELSE IF Len(part) > 0 /\ HasPrefix(part, ToolResultMarker) THEN "tool_result"
    ELSE "text"

convertMessage(dbMsg) ==
    [ ID        |-> dbMsg.ID,
      Role      |-> dbMsg.Role,
      Model     |-> IF dbMsg.Model # Nil THEN Deref(dbMsg.Model) ELSE "",
      Provider  |-> IF dbMsg.Provider # Nil THEN Deref(dbMsg.Provider) ELSE "",
      Timestamp |-> IF dbMsg.CreatedAt # Nil
                    THEN parseTimestamp(Deref(dbMsg.CreatedAt)) ELSE Nil,
      Content   |-> [ k \in 1..Len(dbMsg.Parts) |->
                        [Type |-> contentType(dbMsg.Parts[k]), Text |-> dbMsg.Parts[k]] ] ]

\* The update of session.UpdatedAt after one converted message (export.go:86-88).
advanceUpdatedAt_lastWins(updatedAt, timestamp) ==
    IF timestamp # Nil THEN timestamp ELSE updatedAt

advanceUpdatedAt_neverFromNil(updatedAt, timestamp) ==
    IF timestamp # Nil /\ updatedAt # Nil /\ After(Deref(timestamp), Deref(updatedAt))
    THEN timestamp
    ELSE updatedAt

advanceUpdatedAt(updatedAt, timestamp) ==
    IF timestamp # Nil /\ (updatedAt = Nil \/ After(Deref(timestamp), Deref(updatedAt)))
    THEN timestamp
    ELSE updatedAt

\* convertSession after the first k messages of dbMessages have gone through
\* the loop: the session built so far.
RECURSIVE convertSessionPrefix(_, _, _)
convertSessionPrefix(dbSession, dbMessages, k) ==
    IF k = 0 THEN
        LET createdAt == IF dbSession.CreatedAt # Nil
                         THEN parseTimestamp(Deref(dbSession.CreatedAt)) ELSE Nil
        IN  [ ID        |-> dbSession.ID,
              ClientID  |-> "",
              Title     |-> IF dbSession.Title # Nil THEN Deref(dbSession.Title) ELSE "",
              StartedAt |-> createdAt,
              UpdatedAt |-> createdAt,
              Messages  |-> <<>>,
              MetaMessageCount |-> dbSession.MessageCount ]
    ELSE
        LET session == convertSessionPrefix(dbSession, dbMessages, k - 1)
            msg     == convertMessage(dbMessages[k])
        IN  [ session EXCEPT
                !.Messages  = Append(@, msg),
                !.UpdatedAt = advanceUpdatedAt(@, msg.Timestamp) ]

convertSession(dbSession, dbMessages) ==
    convertSessionPrefix(dbSession, dbMessages, Len(dbMessages))

\* The error convertSession returns: that of the first message whose
\* conversion fails, wrapped with the message id.
convertSessionErr(dbSession, dbMessages) ==
    LET bad == { j \in 1..Len(dbMessages) : convertMessageErr(dbMessages[j]) # NoErr }
    IN  IF bad = {} THEN NoErr
        ELSE LET j == CHOOSE j \in bad : \A i \in bad : j <= i
             IN  Errorf("failed to convert message %s: %w", <<>>, <<>>, <<>>, <<dbMessages[j].ID>>)

\* messages[id]: a key the map does not hold yields the nil slice.
Lookup(messages, id) ==
    IF id \in DOMAIN messages THEN messages[id] ELSE <<>>

CreatorName == "crush-session-explorer"

ExportToAICSFn_noCreator(sessions, messages) ==
    [ Version |-> FormatVersion,
      Creator |-> [Name |-> ""],
      Log     |-> [ Sessions |->
                      [ k \in 1..Len(sessions) |->
                          convertSession(sessions[k], Lookup(messages, sessions[k].ID)) ] ] ]

ExportToAICSFn(sessions, messages) ==
    [ Version |-> FormatVersion,
      Creator |-> [Name |-> CreatorName],
      Log     |-> [ Sessions |->
                      [ k \in 1..Len(sessions) |->
                          convertSession(sessions[k], Lookup(messages, sessions[k].ID)) ] ] ]

\* ExportToAICS: the pair (archive pointer, error) it returns.  The loop stops
\* at the first session whose conversion fails and returns nil with the
\* error wrapped with the session id.
ExportToAICSCall(sessions, messages) ==
    LET bad == { k \in 1..Len(sessions) :
                   convertSessionErr(sessions[k], Lookup(messages, sessions[k].ID)) # NoErr }
    IN  IF bad = {} THEN [archive |-> Ptr(ExportToAICSFn(sessions, messages)), err |-> NoErr]
        ELSE LET k == CHOOSE k \in bad : \A i \in bad : k <= i
                 e == convertSessionErr(sessions[k], Lookup(messages, sessions[k].ID))
             IN  [ archive |-> Nil,
                   err |-> Errorf("failed to convert session %s: %w",
                                  <<>>, <<sessions[k].ID>>, <<>>, e.mid) ]

(***************************************************************************)
(* Import: bytes -> archive -> db records                                  *)
(***************************************************************************)
ZeroArchive ==
    [Version |-> "", Creator |-> [Name |-> ""], Log |-> [Sessions |-> <<>>]]

\* json.Unmarshal(data, &archive): bytes that do not decode give an error and
\* leave the zero archive; bytes that decode give the archive they spell.
jsonUnmarshal(d) ==
    IF d.decodes THEN [err |-> FALSE, archive |-> d.value]
    ELSE [err |-> TRUE, archive |-> ZeroArchive]

ParseError == Errorf("failed to parse AICS file: %w", <<>>, <<>>, <<>>, <<>>)

VersionError ==
    Errorf("unsupported AICS version: %s (expected: %s)", <<>>, <<>>, <<>>, <<>>)

\* archive.ToJSON(): json.MarshalIndent writes every field the archive
\* carries under the name json.Unmarshal reads it back from, so the bytes
\* decode and spell the archive.
ToJSON(a) == [decodes |-> TRUE, value |-> a]

\* ImportFromAICS: the pair (archive pointer, error) it returns.
ImportFromAICSFn_noVersionGate(d) ==
    LET u == jsonUnmarshal(d)
    IN  IF u.err THEN [archive |-> Nil, err |-> ParseError]
        ELSE [archive |-> Ptr(u.archive), err |-> NoErr]

ImportFromAICSFn_oneMessage(d) ==
    LET u == jsonUnmarshal(d)
    IN  IF u.err THEN [archive |-> Nil, err |-> ParseError]
        ELSE IF u.archive.Version # FormatVersion
             THEN [archive |-> Nil, err |-> ParseError]
        ELSE [archive |-> Ptr(u.archive), err |-> NoErr]

ImportFromAICSFn(d) ==
    LET u == jsonUnmarshal(d)
    IN  IF u.err THEN [archive |-> Nil, err |-> ParseError]
        ELSE IF u.archive.Version # FormatVersion
             THEN [archive |-> Nil, err |-> VersionError]
        ELSE [archive |-> Ptr(u.archive), err |-> NoErr]

\* The fragment one content part with non-empty text becomes (lines 115-126).
flattenContent(content) ==
    CASE content.Type = "tool_call" ->
            IF ~HasPrefix(content.Text, ImportToolCallMarker)
            THEN ImportToolCallMarker \o Space \o content.Text
            ELSE content.Text
      [] content.Type = "tool_result" ->
            IF ~HasPrefix(content.Text, ImportToolResultMarker)
            THEN ImportToolResultMarker \o Space \o content.Text
            ELSE content.Text
      [] OTHER -> content.Text

flattenParts_keepsEmpty(contents, k) ==
    [ c \in 1..(Len(contents) - k + 1) |-> flattenContent(contents[c + k - 1]) ]

\* The loop over aicsMsg.Content: parts with empty text are skipped.
RECURSIVE flattenParts(_, _)
flattenParts(contents, k) ==
    IF k > Len(contents) THEN <<>>
    ELSE IF contents[k].Text # <<>>
         THEN <<flattenContent(contents[k])>> \o flattenParts(contents, k + 1)
         ELSE flattenParts(contents, k + 1)

convertAICSMessage(aicsMsg) ==
    [ ID        |-> aicsMsg.ID,
      Role      |-> aicsMsg.Role,
      Model     |-> IF aicsMsg.Model # "" THEN Ptr(aicsMsg.Model) ELSE Nil,
      Provider  |-> IF aicsMsg.Provider # "" THEN Ptr(aicsMsg.Provider) ELSE Nil,
      CreatedAt |-> IF aicsMsg.Timestamp # Nil
                    THEN Ptr(formatZ(Deref(aicsMsg.Timestamp))) ELSE Nil,
      Parts     |-> flattenParts(aicsMsg.Content, 1) ]

convertAICSSession_trustsMetadata(aicsSession) ==
    [ ID           |-> aicsSession.ID,
      Title        |-> IF aicsSession.Title # "" THEN Ptr(aicsSession.Title) ELSE Nil,
      CreatedAt    |-> IF aicsSession.StartedAt # Nil
                       THEN Ptr(formatZ(Deref(aicsSession.StartedAt))) ELSE Nil,
      MessageCount |-> IF aicsSession.MetaMessageCount # Nil
                       THEN aicsSession.MetaMessageCount
                       ELSE Ptr(Len(aicsSession.Messages)) ]

\* The db.Session half of convertAICSSession.
convertAICSSession(aicsSession) ==
    [ ID           |-> aicsSession.ID,
      Title        |-> IF aicsSession.Title # "" THEN Ptr(aicsSession.Title) ELSE Nil,
      CreatedAt    |-> IF aicsSession.StartedAt # Nil
                       THEN Ptr(formatZ(Deref(aicsSession.StartedAt))) ELSE Nil,
      MessageCount |-> Ptr(Len(aicsSession.Messages)) ]

\* The []db.ParsedMessage half of convertAICSSession.
convertAICSMessages(aicsSession) ==
    [ k \in 1..Len(aicsSession.Messages) |-> convertAICSMessage(aicsSession.Messages[k]) ]

\* messagesMap after the loop: each id maps to the messages of the last
\* session that carries it.
LastIndexOf(sessions, id) ==
    CHOOSE k \in 1..Len(sessions) :
        /\ sessions[k].ID = id
        /\ \A m \in (k + 1)..Len(sessions) : sessions[m].ID # id

ConvertToDBFormatFn(a) ==
    LET ss == a.Log.Sessions
    IN  [ sessions |-> [ k \in 1..Len(ss) |-> convertAICSSession(ss[k]) ],
          messages |-> [ id \in { ss[k].ID : k \in 1..Len(ss) } |->
                            convertAICSMessages(ss[LastIndexOf(ss, id)]) ] ]

(***************************************************************************)
(* Individual-file export                                                  *)
(***************************************************************************)
\* The n-th identifier the uuid package hands out: each differs from all
\* earlier ones.
UUID(n) == "uuid-" \o ToString(n)

GenerateSessionID(n) == UUID(n)

\* StartedAt.Format("2006"), ("01"), ("02"): the calendar date of the wall
\* clock reading of t in t's own zone.  The clock counts half days.
formatDate(t) == t.wall \div 2

\* filepath.Join(baseDir, year, month, day, id + ".aics.json")
FilePath(baseDir, date, id) ==
    [dir |-> baseDir, date |-> date, name |-> id \o ".aics.json"]

\* File contents: the JSON text of an archive, or what a write that failed
\* part way left behind.
WholeFile(a) == [whole |-> TRUE, archive |-> a]

PartialFile == [whole |-> FALSE, archive |-> ZeroArchive]

\* os.WriteFile(path, content): the disk afterwards.
writeFile(d, path, content) ==
    [ q \in DOMAIN d \cup {path} |-> IF q = path THEN content ELSE d[q] ]

\* What the file system does when a session's file is written: all goes
\* well; os.MkdirAll fails; os.WriteFile fails before it creates the file;
\* os.WriteFile creates the file and fails before all is written.
Outcomes == {"ok", "mkdir_fails", "open_fails", "write_fails"}

\* ExportSessionToFile: the path and error it returns and the disk it leaves.
ExportSessionToFileCall(session, baseDir, outcome, d) ==
    IF session.StartedAt = Nil THEN
        [path |-> Nil, disk |-> d,
         err |-> Errorf("session has no start time", <<>>, <<>>, <<>>, <<>>)]
    ELSE IF outcome = "mkdir_fails" THEN
        [path |-> Nil, disk |-> d,
         err |-> Errorf("failed to create session directory: %w", <<>>, <<>>, <<>>, <<>>)]
    ELSE
        LET a == [ Version |-> FormatVersion,
                   Creator |-> [Name |-> CreatorName],
                   Log     |-> [Sessions |-> <<session>>] ]
            filePath == FilePath(baseDir, formatDate(Deref(session.StartedAt)), session.ID)
        IN  CASE outcome = "open_fails" ->
                    [path |-> Nil, disk |-> d,
                     err |-> Errorf("failed to write file: %w", <<>>, <<>>, <<>>, <<>>)]
              [] outcome = "write_fails" ->
                    [path |-> Nil, disk |-> writeFile(d, filePath, PartialFile),
                     err |-> Errorf("failed to write file: %w", <<>>, <<>>, <<>>, <<>>)]
              [] OTHER ->
                    [path |-> Ptr(filePath), disk |-> writeFile(d, filePath, WholeFile(a)),
                     err |-> NoErr]

\* session.ID = GenerateSessionID(); if clientID != "" { session.ClientID = clientID }
stampSession_keepsSourceID(session, id, clientID) ==
    [ session EXCEPT !.ClientID = IF clientID # "" THEN clientID ELSE @ ]

stampSession(session, id, clientID) ==
    [ session EXCEPT !.ID = id,
                     !.ClientID = IF clientID # "" THEN clientID ELSE @ ]

\* One turn of the loop of ExportSessionsIndividually.  st is the state of
\* the call: the paths collected, the error it has returned with (if any),
\* the disk, the identifiers handed out.
exportOne_skipsFailures(st, dbSession, dbMessages, baseDir, clientID, outcome) ==
    IF st.err # NoErr THEN st
    ELSE
        LET session == stampSession(convertSession(dbSession, dbMessages),
                                    GenerateSessionID(st.uuids), clientID)
            r == ExportSessionToFileCall(session, baseDir, outcome, st.disk)
        IN  IF r.err # NoErr
            THEN [ st EXCEPT !.uuids = @ + 1, !.disk = r.disk ]
            ELSE [ st EXCEPT !.uuids = @ + 1, !.disk = r.disk,
                             !.files = Append(@, Deref(r.path)) ]

exportOne(st, dbSession, dbMessages, baseDir, clientID, outcome) ==
    IF st.err # NoErr THEN st
    ELSE IF convertSessionErr(dbSession, dbMessages) # NoErr THEN
        [ st EXCEPT !.err = Errorf("failed to convert session %s: %w",
                                   <<>>, <<dbSession.ID>>, <<>>, <<>>) ]
    ELSE
        LET session == stampSession(convertSession(dbSession, dbMessages),
                                    GenerateSessionID(st.uuids), clientID)
            r == ExportSessionToFileCall(session, baseDir, outcome, st.disk)
        IN  IF r.err # NoErr
            THEN [ st EXCEPT !.uuids = @ + 1, !.disk = r.disk,
                             !.err = Errorf("failed to export session %s: %w",
                                            <<>>, <<session.ID>>, <<>>, <<>>) ]
            ELSE [ st EXCEPT !.uuids = @ + 1, !.disk = r.disk,
                             !.files = Append(@, Deref(r.path)) ]

\* ExportSessionsIndividually after the first k sessions.
RECURSIVE exportPrefix(_, _, _, _, _, _, _)
exportPrefix(sessions, messages, baseDir, clientID, outcomes, st0, k) ==
    IF k = 0 THEN st0
    ELSE exportOne(exportPrefix(sessions, messages, baseDir, clientID, outcomes, st0, k - 1),
                   sessions[k], Lookup(messages, sessions[k].ID),
                   baseDir, clientID, outcomes[k])

\* ExportSessionsIndividually: the paths and error it returns, the disk it
\* leaves and the identifiers handed out, from a disk d and n identifiers
\* handed out before.
ExportSessionsIndividuallyCall(sessions, messages, baseDir, clientID, outcomes, d, n) ==
    exportPrefix(sessions, messages, baseDir, clientID, outcomes,
                 [files |-> <<>>, err |-> NoErr, disk |-> d, uuids |-> n],
                 Len(sessions))

(***************************************************************************)
(* Client identifier                                                       *)
(***************************************************************************)
\* The content of the client-id file: the text, and whether white space
\* (a final newline) follows it.
FileText(text, space) == [text |-> text, space |-> space]

\* strings.TrimSpace(string(data))
TrimSpace(c) == c.text

\* os.MkdirAll(dir) and, if that worked, os.WriteFile(clientIDPath, clientID):
\* the file afterwards.  A write that fails part way leaves the file
\* truncated.
persistFile_dropsWrite(file, clientID, outcome) == file

persistFile(file, clientID, outcome) ==
    CASE outcome = "ok" -> Ptr(FileText(clientID, FALSE))
      [] outcome = "write_fails" -> Ptr(FileText("", FALSE))
      [] OTHER -> file

\* return clientID, nil: what GetClientID returns after trying to save the id.
returnAfterPersist_reportsFailure(clientID, outcome) ==
    IF outcome # "ok"
    THEN [id |-> "", err |-> Errorf("failed to save client ID: %w", <<>>, <<>>, <<>>, <<>>)]
    ELSE [id |-> clientID, err |-> NoErr]

returnAfterPersist(clientID, outcome) == [id |-> clientID, err |-> NoErr]

\* ExportAICSCmd: the client id the command goes on with.
commandClientID(r) == IF r.err # NoErr THEN "" ELSE r.id

(***************************************************************************)
(* Inputs                                                                  *)
(***************************************************************************)
Plain == <<"l", "s">>

Texts ==
    { <<>>, Plain,
      ToolCallMarker \o Space \o Plain, ToolResultMarker \o Space \o Plain,
      ImportToolCallMarker \o Space \o Plain, ImportToolResultMarker \o Space \o Plain }

SpecTypes == {"text", "tool_call", "tool_result", "code", "image"}

SpecRoles == {"user", "assistant", "system", "tool"}

ContentTypes == {"text", "tool_call", "tool_result", "code", "video"}

Contents == { [Type |-> ty, Text |-> tx] : ty \in ContentTypes, tx \in Texts }

Offsets == {0, 1}

Times == { Time(w, o) : w \in 0..MaxWall, o \in Offsets }

OptTimes == {Nil} \cup { Ptr(t) : t \in Times }

MkContent(type, text) == [Type |-> type, Text |-> text]

MkMessage(id, role, model, provider, timestamp, content) ==
    [ ID |-> id, Role |-> role, Model |-> model, Provider |-> provider,
      Timestamp |-> timestamp, Content |-> content ]

MkSession(id, startedAt, messages) ==
    [ ID |-> id, ClientID |-> "", Title |-> "t", StartedAt |-> startedAt,
      UpdatedAt |-> startedAt, Messages |-> messages, MetaMessageCount |-> Nil ]

MkArchive(version, creator, sessions) ==
    [Version |-> version, Creator |-> [Name |-> creator], Log |-> [Sessions |-> sessions]]

\* The JSON text of an archive, and bytes json.Unmarshal rejects.
Json(a) == [decodes |-> TRUE, value |-> a]

NoData == [decodes |-> FALSE, value |-> ZeroArchive]

TextPart == MkContent("text", Plain)

\* Messages that differ in what the validator reads.
ValidationMessages ==
    { MkMessage(id, role, "", "", Nil, content) :
        id \in {"", "m1"}, role \in {"", "user", "robot"}, content \in {<<>>, <<TextPart>>} }

GoodMessage == MkMessage("m1", "user", "", "", Nil, <<TextPart>>)

GoodSession == MkSession("s1", Nil, <<GoodMessage>>)

NoIDSession == MkSession("", Nil, <<GoodMessage>>)

NoMessagesSession == MkSession("s2", Nil, <<>>)

FewSessions == {GoodSession, NoIDSession, NoMessagesSession}

\* Archives with a good header: one session is arbitrary, the others are among
\* the three above.
InitBody ==
    \E n \in 1..MaxSessions : \E ss \in [1..n -> FewSessions] : \E k \in 1..n :
    \E id \in {"", "s1"} : \E m \in 0..MaxMessages : \E msgs \in [1..m -> ValidationMessages] :
        data = Json(MkArchive(FormatVersion, "x", [ss EXCEPT ![k] = MkSession(id, Nil, msgs)]))

\* Archives that differ in their header.
InitHeader ==
    \E v \in {"", "1.0", "2.0"} : \E c \in {"", "x"} :
    \E n \in 0..MaxSessions : \E ss \in [1..n -> FewSessions] :
        data = Json(MkArchive(v, c, ss))

\* Archives of one message that differ in its content parts.
InitContent ==
    \E n \in 0..MaxParts : \E c \in [1..n -> Contents] :
        data = Json(MkArchive(FormatVersion, "x",
                      <<MkSession("s1", Nil, <<MkMessage("m1", "user", "", "", Nil, c)>>)>>))

\* Archives of one message that differ in their times.
InitTime ==
    \E t0 \in OptTimes : \E t1 \in OptTimes :
        data = Json(MkArchive(FormatVersion, "x",
                      <<MkSession("s1", t0,
                          <<MkMessage("m1", "user", "gpt-4", "openai", t1, <<TextPart>>)>>)>>))

\* metadata.message_count of an archive session: absent, smaller than any
\* non-empty message list, larger than any message list.
MetaCounts == {Nil, Ptr(0), Ptr(MaxMessages + 1)}

\* Archives of one session that differ in the number of messages and in the
\* message count their metadata carries.
InitCount ==
    \E n \in 1..MaxMessages : \E c \in MetaCounts :
        data = Json(MkArchive(FormatVersion, "x",
                      <<[ MkSession("s1", Nil, [ k \in 1..n |-> GoodMessage ])
                            EXCEPT !.MetaMessageCount = c ]>>))

\* Timestamp text of the source database.
TsTexts ==
    { TsText("rfc3339", w, o) : w \in 0..MaxWall, o \in Offsets } \cup
    { TsText("sql", w, 0) : w \in 0..MaxWall } \cup
    { TsText("rfc3339frac", 0, 1), TsText("tnozone", 0, 0),
      TsText("rfc1123", 0, 1), TsText("rfc822", 0, 1) } \cup
    { TsText("epoch", 0, 0), TsText("garbage", 0, 0), TsText("empty", 0, 0) }

OptTsTexts == {Nil} \cup { Ptr(t) : t \in TsTexts }

OptNames(n) == {Nil, Ptr(""), Ptr(n)}

MkDBMessage(id, role, model, provider, createdAt, parts) ==
    [ ID |-> id, Role |-> role, Model |-> model, Provider |-> provider,
      CreatedAt |-> createdAt, Parts |-> parts ]

MkDBSession(id, createdAt, count) ==
    [ID |-> id, Title |-> Ptr("t"), CreatedAt |-> createdAt, MessageCount |-> count]

MkSource(sessions, messages) == [sessions |-> sessions, messages |-> messages]

NoSource == MkSource(<<>>, <<>>)

\* One session whose messages differ in their timestamps.
InitTimeSource ==
    \E t0 \in OptTsTexts : \E n \in 0..MaxMessages : \E ts \in [1..n -> OptTsTexts] :
        src = MkSource(<<MkDBSession("s1", t0, Ptr(n))>>,
                       [ id \in {"s1"} |->
                           [ k \in 1..n |->
                               MkDBMessage("m1", "user", Nil, Nil, ts[k], <<Plain>>) ] ])

\* One session of one message whose fragments, model and provider differ.
InitContentSource ==
    \E m \in OptNames("gpt-4") : \E p \in OptNames("openai") :
    \E n \in 0..MaxParts : \E parts \in [1..n -> Texts] :
        src = MkSource(<<MkDBSession("s1", Nil, Ptr(1))>>,
                       [ id \in {"s1"} |-> <<MkDBMessage("m1", "user", m, p, Nil, parts)>> ])

\* Sessions and a message map that differ in shape: empty and repeated ids,
\* sessions the map has no entry for, entries no session uses, messages with
\* nothing in them.
HollowMessage == MkDBMessage("", "", Nil, Nil, Ptr(TsText("garbage", 0, 0)), <<>>)

FullMessage ==
    MkDBMessage("m2", "user", Ptr("gpt-4"), Ptr("openai"), Ptr(TsText("rfc3339", 1, 1)), <<Plain>>)

ShapeMessageLists ==
    { <<>>, <<HollowMessage>>, <<FullMessage, HollowMessage>> }

ShapeIDs == {"", "s1", "s2"}

ShapeTimes == { Nil, Ptr(TsText("empty", 0, 0)), Ptr(TsText("garbage", 0, 0)) }

InitShapeSource ==
    \E n \in 0..MaxSessions : \E ids \in [1..n -> ShapeIDs] : \E ts \in [1..n -> ShapeTimes] :
    \E dom \in SUBSET ShapeIDs : \E mm \in [dom -> ShapeMessageLists] :
        src = MkSource([ k \in 1..n |-> MkDBSession(ids[k], ts[k], Nil) ], mm)

\* Sessions that each have an id and one message with all its fields.
InitFullSource ==
    \E n \in 1..MaxSessions : \E ids \in [1..n -> {"s1", "s2"}] :
        src = MkSource([ k \in 1..n |-> MkDBSession(ids[k], Nil, Ptr(1)) ],
                       [ id \in {"s1", "s2"} |-> <<FullMessage>> ])

\* No individual-file export and no client identifier in play.
NoBatch ==
    /\ cid = ""
    /\ fs = <<>>
    /\ disk = <<>>
    /\ exportedFiles = <<>>

NoClient ==
    /\ clientFile = Nil
    /\ proc = <<>>
    /\ uuids = 0

\* No command-level state: the library is called directly.
NoCommand == cmd = <<>>

(***************************************************************************)
(* The import pipeline of the import-aics command, and the library calls   *)
(* a caller can make on an archive it holds.                               *)
(***************************************************************************)
Init ==
    /\ \/ data = NoData
       \/ InitHeader
       \/ InitBody
       \/ InitContent
       \/ InitTime
       \/ InitCount
    /\ archive = Nil
    /\ ierr = NoErr
    /\ verr = NoErr
    /\ out = Nil
    /\ src = NoSource
    /\ pc = "start"
    /\ xerr = NoErr
    /\ NoBatch
    /\ NoClient
    /\ NoCommand

\* archive, err := ImportFromAICS(data)
ImportFromAICS ==
    /\ pc = "start"
    /\ LET r == ImportFromAICSFn(data)
       IN  /\ archive' = r.archive
           /\ ierr' = r.err
           /\ pc' = IF r.err = NoErr THEN "imported" ELSE "import_failed"
    /\ UNCHANGED <<data, verr, out, src, xerr, batchVars, clientVars, cmd>>

\* A caller that decodes or builds the archive itself and holds it in memory.
LoadArchive ==
    /\ pc = "start"
    /\ data.decodes
    /\ archive' = Ptr(data.value)
    /\ pc' = "loaded"
    /\ UNCHANGED <<data, ierr, verr, out, src, xerr, batchVars, clientVars, cmd>>

\* err := ValidateArchive(archive), on an archive not yet validated or on one
\* validated before.  archive is a pointer: the action records the pointee
\* as the call leaves it.
ValidateArchive ==
    /\ pc \in {"imported", "loaded", "valid", "invalid"}
    /\ LET r == ValidateArchiveCall(Deref(archive))
       IN  /\ archive' = Ptr(r.archive)
           /\ verr' = r.err
           /\ pc' = IF r.err = NoErr THEN "valid" ELSE "invalid"
    /\ UNCHANGED <<data, ierr, out, src, xerr, batchVars, clientVars, cmd>>

\* sessions, messagesMap, err := archive.ConvertToDBFormat()
ConvertToDBFormat ==
    /\ pc \in {"valid", "exported"}
    /\ out' = Ptr(ConvertToDBFormatFn(Deref(archive)))
    /\ pc' = "converted"
    /\ UNCHANGED <<data, archive, ierr, verr, src, xerr, batchVars, clientVars, cmd>>

Next ==
    \/ ImportFromAICS
    \/ LoadArchive
    \/ ValidateArchive
    \/ ConvertToDBFormat

Spec == Init /\ [][Next]_vars

(***************************************************************************)
(* Export followed by projection back to db records.                       *)
(***************************************************************************)
InitExport ==
    /\ data = NoData
    /\ archive = Nil
    /\ ierr = NoErr
    /\ verr = NoErr
    /\ out = Nil
    /\ \/ InitTimeSource
       \/ InitContentSource
       \/ InitShapeSource
       \/ InitFullSource
    /\ pc = "source"
    /\ xerr = NoErr
    /\ NoBatch
    /\ NoClient
    /\ NoCommand

\* archive, err := ExportToAICS(sessions, messages, providerName)
ExportToAICS ==
    /\ pc = "source"
    /\ LET r == ExportToAICSCall(src.sessions, src.messages)
       IN  /\ archive' = r.archive
           /\ xerr' = r.err
           /\ pc' = IF r.err = NoErr THEN "exported" ELSE "export_failed"
    /\ UNCHANGED <<data, ierr, verr, out, src, batchVars, clientVars, cmd>>

NextExport ==
    \/ ExportToAICS
    \/ ConvertToDBFormat

SpecExport == InitExport /\ [][NextExport]_vars

\* Export alone, of sessions whose messages differ in their timestamps.
InitExportTimes ==
    /\ data = NoData
    /\ archive = Nil
    /\ ierr = NoErr
    /\ verr = NoErr
    /\ out = Nil
    /\ InitTimeSource
    /\ pc = "source"
    /\ xerr = NoErr
    /\ NoBatch
    /\ NoClient
    /\ NoCommand

NextExportTimes == ExportToAICS

SpecExportTimes == InitExportTimes /\ [][NextExportTimes]_vars

(***************************************************************************)
(* export-aics --individual: every session to a file of its own.           *)
(***************************************************************************)
BaseDir == "sessions"

\* Creation times of the sessions of a batch.
BatchTimes ==
    { Nil, Ptr(TsText("garbage", 0, 0)), Ptr(TsText("rfc3339", MaxWall, 1)) } \cup
    { Ptr(TsText("rfc3339", w, 0)) : w \in 0..MaxWall }

InitBatch ==
    /\ data = NoData
    /\ archive = Nil
    /\ ierr = NoErr
    /\ verr = NoErr
    /\ out = Nil
    /\ xerr = NoErr
    /\ \E n \in 0..MaxSessions : \E ids \in [1..n -> {"s1", "s2"}] :
       \E ts \in [1..n -> BatchTimes] : \E o \in [1..n -> Outcomes] :
           /\ src = MkSource([ k \in 1..n |-> MkDBSession(ids[k], ts[k], Nil) ],
                             [ id \in {"s1"} |-> <<FullMessage>> ])
           /\ fs = o
    /\ cid \in {"", "c1"}
    /\ disk = <<>>
    /\ exportedFiles = <<>>
    /\ NoClient
    /\ NoCommand
    /\ pc = "source"

\* exportedFiles, err := ExportSessionsIndividually(sessions, messagesMap,
\*                           outputPath, providerName, clientID)
ExportSessionsIndividually ==
    /\ pc = "source"
    /\ LET r == ExportSessionsIndividuallyCall(src.sessions, src.messages, BaseDir,
                                               cid, fs, disk, uuids)
       IN  /\ exportedFiles' = r.files
           /\ xerr' = r.err
           /\ disk' = r.disk
           /\ uuids' = r.uuids
           /\ pc' = IF r.err = NoErr THEN "batch_done" ELSE "batch_failed"
    /\ UNCHANGED <<data, archive, ierr, verr, out, src, cid, fs, clientFile, proc, cmd>>

NextBatch == ExportSessionsIndividually

SpecBatch == InitBatch /\ [][NextBatch]_vars

(***************************************************************************)
(* export-aics invocations resolving the client identifier.  Each runs      *)
(* GetClientID, split where it reads and writes the client-id file that the *)
(* invocations share, and then exports.                                     *)
(***************************************************************************)
Procs == 1..MaxProcs

\* An invocation not yet started.  The fields record what it saw and did:
\*   override  the value of CRUSH_CLIENT_ID
\*   cfgDir    os.UserConfigDir succeeded
\*   found     the client-id file when the invocation started
\*   reads     os.ReadFile was called;  readErr: it failed on an existing file
\*   gen       the id generated, if any
\*   persist   the outcome of saving it ("none": not attempted)
\*   id, err   what GetClientID returned
\*   after     the invocations whose GetClientID had returned at the start
\*   lapped    another invocation was inside GetClientID at the same time
\*   mode, stamps     the export mode and the ClientID of each session exported
\*   hadFile   the client-id file existed before any invocation
IdleProc(had) ==
    [ pc |-> "idle", override |-> "", cfgDir |-> TRUE, found |-> Nil,
      reads |-> FALSE, readErr |-> FALSE, gen |-> "", persist |-> "none",
      id |-> "", err |-> NoErr, after |-> {}, lapped |-> FALSE,
      mode |-> "", stamps |-> <<>>, hadFile |-> had ]

Returned(p) == proc[p].pc = "done"

InFlight(p) == proc[p].pc \in {"read", "persist"}

\* A file someone wrote by hand.
EditedFile == Ptr(FileText("c0", TRUE))

\* The sessions every invocation exports: one session with a start time.
ClientSource ==
    MkSource(<<MkDBSession("s1", Ptr(TsText("rfc3339", 0, 0)), Nil)>>, <<>>)

\* The path of the single-file export: no date segment.
SingleFilePath == [dir |-> ".", date |-> -1, name |-> "sessions.aics.json"]

InitClient ==
    /\ data = NoData
    /\ archive = Nil
    /\ ierr = NoErr
    /\ verr = NoErr
    /\ out = Nil
    /\ xerr = NoErr
    /\ src = ClientSource
    /\ NoBatch
    /\ clientFile \in {Nil, EditedFile}
    /\ proc = [ p \in Procs |-> IdleProc(clientFile # Nil) ]
    /\ uuids = 0
    /\ NoCommand
    /\ pc = "client"

\* The rest of ExportAICSCmd once GetClientID has returned to invocation p:
\* the export itself, in either mode.  mine is the record of p on return,
\* others gives the records of the other invocations, n counts the
\* identifiers handed out so far.
ExportAICSCmd(p, mine, others, n) ==
    LET clientID == commandClientID(mine)
    IN  \E individualFiles \in BOOLEAN :
          IF individualFiles THEN
              LET r == ExportSessionsIndividuallyCall(
                           src.sessions, src.messages, BaseDir, clientID,
                           [ k \in 1..Len(src.sessions) |-> "ok" ], disk, n)
              IN  /\ disk' = r.disk
                  /\ uuids' = r.uuids
                  /\ proc' = [ q \in Procs |->
                                 IF q # p THEN others[q]
                                 ELSE [ mine EXCEPT
                                          !.mode = "individual",
                                          !.stamps =
                                              [ j \in 1..Len(r.files) |->
                                                  r.disk[r.files[j]].archive.Log.Sessions[1].ClientID ],
                                          !.pc = "done" ] ]
          ELSE
              LET r == ExportToAICSCall(src.sessions, src.messages)
              IN  /\ disk' = writeFile(disk, SingleFilePath, WholeFile(Deref(r.archive)))
                  /\ uuids' = n
                  /\ proc' = [ q \in Procs |->
                                 IF q # p THEN others[q]
                                 ELSE [ mine EXCEPT
                                          !.mode = "single",
                                          !.stamps =
                                              [ j \in 1..Len(Deref(r.archive).Log.Sessions) |->
                                                  Deref(r.archive).Log.Sessions[j].ClientID ],
                                          !.pc = "done" ] ]

\* An invocation up to its first access to the client-id file: os.Getenv
\* and os.UserConfigDir.  When GetClientID returns here, the command goes on
\* to export.
GetClientIDBegin(p) ==
    /\ proc[p].pc = "idle"
    /\ \E ov \in {"", "e1"} : \E ok \in BOOLEAN :
          /\ ov # "" => ok
          /\ LET base == [ proc[p] EXCEPT !.override = ov, !.cfgDir = ok,
                                          !.found = clientFile,
                                          !.after = { q \in Procs : Returned(q) },
                                          !.lapped = \E q \in Procs : InFlight(q) ]
                 others == [ q \in Procs |->
                               IF InFlight(q) THEN [ proc[q] EXCEPT !.lapped = TRUE ]
                               ELSE proc[q] ]
             IN  IF ov # "" THEN
                     ExportAICSCmd(p, [ base EXCEPT !.id = ov ], others, uuids)
                 ELSE IF ~ok THEN
                     ExportAICSCmd(p, [ base EXCEPT !.gen = UUID(uuids), !.id = UUID(uuids) ],
                                   others, uuids + 1)
                 ELSE
                     /\ proc' = [ others EXCEPT ![p] = [ base EXCEPT !.pc = "read" ] ]
                     /\ UNCHANGED <<uuids, disk>>
    /\ UNCHANGED <<data, archive, ierr, verr, out, src, pc, xerr,
                   cid, fs, exportedFiles, clientFile, cmd>>

\* os.ReadFile(clientIDPath): the id read is returned and the command goes
\* on to export; when the read fails, uuid.NewString().
GetClientIDRead(p) ==
    /\ proc[p].pc = "read"
    /\ \E e \in (IF clientFile = Nil THEN {FALSE} ELSE BOOLEAN) :
          IF clientFile # Nil /\ ~e THEN
              ExportAICSCmd(p, [ proc[p] EXCEPT !.reads = TRUE,
                                               !.id = TrimSpace(Deref(clientFile)) ],
                            proc, uuids)
          ELSE
              /\ proc' = [ proc EXCEPT ![p].reads = TRUE, ![p].readErr = e,
                                       ![p].gen = UUID(uuids), ![p].pc = "persist" ]
              /\ uuids' = uuids + 1
              /\ disk' = disk
    /\ UNCHANGED <<data, archive, ierr, verr, out, src, pc, xerr,
                   cid, fs, exportedFiles, clientFile, cmd>>

\* os.MkdirAll, os.WriteFile and the return; the command goes on to export.
GetClientIDPersist(p) ==
    /\ proc[p].pc = "persist"
    /\ \E o \in Outcomes :
          LET r == returnAfterPersist(proc[p].gen, o)
          IN  /\ clientFile' = persistFile(clientFile, proc[p].gen, o)
              /\ ExportAICSCmd(p, [ proc[p] EXCEPT !.persist = o, !.id = r.id, !.err = r.err ],
                               proc, uuids)
    /\ UNCHANGED <<data, archive, ierr, verr, out, src, pc, xerr, cid, fs, exportedFiles, cmd>>

NextClient ==
    \E p \in Procs :
        \/ GetClientIDBegin(p)
        \/ GetClientIDRead(p)
        \/ GetClientIDPersist(p)

SpecClient == InitClient /\ [][NextClient]_vars

(***************************************************************************)
(* The import-aics command: ImportFromFile, ValidateArchive,               *)
(* ConvertToDBFormat, the format check, then one file per session.         *)
(***************************************************************************)
\* slugify on the texts of the model: lower-case letters, digits and hyphens
\* stay, "!" is removed, and what is left empty becomes "untitled".
slugify(text) == IF text \in {"", "!"} THEN "untitled" ELSE text

\* session.ID[:8]: the slice expression panics when the id has fewer than
\* eight bytes.
sliceID(id) ==
    IF Len(id) >= 8 THEN [panic |-> FALSE, text |-> SubSeq(id, 1, 8)]
    ELSE [panic |-> TRUE, text |-> ""]

\* The extension GenerateFilename / GenerateHTMLFilename puts on the name.
Extension(format) == IF format = "html" THEN ".html" ELSE ".md"

OutputDir == "imported-sessions"

\* GenerateFilename / GenerateHTMLFilename followed by filepath.Join(outputDir,
\* filename).  The base is computed from the id first and replaced by the
\* slug of the title when there is one.  The prefix is the minute of
\* time.Now(): the creation time ConvertToDBFormat emits is RFC3339 text,
\* which neither strconv.ParseInt nor time.Parse("1", ...) accepts.
GenerateFilenameCall(session, format, now) ==
    LET cut  == sliceID(session.ID)
        base == IF session.Title # Nil /\ Deref(session.Title) # ""
                THEN slugify(Deref(session.Title))
                ELSE slugify("session-" \o cut.text)
    IN  [ panic |-> cut.panic,
          path  |-> [dir |-> OutputDir, date |-> now, name |-> base \o Extension(format)] ]

\* RenderMarkdown / RenderHTML: the text of one session in one format.
Render(format, session, messages) ==
    [whole |-> TRUE, format |-> format, session |-> session, messages |-> messages]

PartialText == [whole |-> FALSE, format |-> "", session |-> <<>>, messages |-> <<>>]

\* markdown.WriteFile(outputPath, content): the error it returns and the disk
\* it leaves.  It creates the directory and writes the file; each can fail.
markdownWriteFile(d, path, content, outcome) ==
    CASE outcome = "ok" -> [disk |-> writeFile(d, path, content), err |-> NoErr]
      [] outcome = "write_fails" ->
            [disk |-> writeFile(d, path, PartialText),
             err |-> Errorf("failed to write file: %w", <<>>, <<>>, <<>>, <<>>)]
      [] OTHER -> [disk |-> d, err |-> Errorf("failed to write file: %w", <<>>, <<>>, <<>>, <<>>)]

Formats == {"markdown", "html", "md", "pdf"}

\* The check of --format and its normalisation: the format rendering goes on
\* with, or the error the command returns.
checkFormat(format) ==
    IF format # "markdown" /\ format # "html" /\ format # "md"
    THEN [format |-> format,
          err |-> Errorf("invalid format: %s (supported: markdown, html, md)",
                         <<>>, <<>>, <<>>, <<>>)]
    ELSE [format |-> IF format = "md" THEN "markdown" ELSE format, err |-> NoErr]

\* Session ids and titles of the archives the command is given.
CmdIDs == {"s1", "session-1", "session-2"}

CmdTitles == {"", "a", "!"}

\* The command before it has done anything.
\*   inputPath, format   the flags
\*   readable            os.ReadFile succeeds on the input file
\*   now                 the minute time.Now() last gave
\*   i                   sessions the rendering loop is through with
\*   successCount        the counter of the loop
\*   written             the paths markdown.WriteFile returned nil for
\*   stages              the stages run so far
\*   err                 the error returned;  reported: the count printed
NewImportCmd(inputPath, readable, format) ==
    [ inputPath |-> inputPath, readable |-> readable, format |-> format,
      now |-> 0, i |-> 0, successCount |-> 0, written |-> <<>>,
      stages |-> <<>>, err |-> NoErr, reported |-> Nil ]

InitImportCmd ==
    /\ \/ /\ data = NoData
          /\ fs = <<>>
          /\ \E ip \in {"", "in.aics.json"} : \E r \in BOOLEAN :
                cmd = NewImportCmd(ip, r, "markdown")
       \/ /\ data = Json(MkArchive("2.0", "x", <<GoodSession>>))
          /\ fs = <<"ok">>
          /\ cmd = NewImportCmd("in.aics.json", TRUE, "markdown")
       \/ \E n \in 0..MaxSessions : \E ids \in [1..n -> CmdIDs] :
          \E ts \in [1..n -> CmdTitles] : \E o \in [1..n -> Outcomes] :
          \E f \in Formats :
             /\ data = Json(MkArchive(FormatVersion, "x",
                          [ k \in 1..n |->
                              [ MkSession(ids[k], Nil, <<GoodMessage>>)
                                  EXCEPT !.Title = ts[k] ] ]))
             /\ fs = o
             /\ cmd = NewImportCmd("in.aics.json", TRUE, f)
    /\ archive = Nil
    /\ ierr = NoErr
    /\ verr = NoErr
    /\ out = Nil
    /\ src = NoSource
    /\ xerr = NoErr
    /\ cid = ""
    /\ disk = <<>>
    /\ exportedFiles = <<>>
    /\ NoClient
    /\ pc = "cmd_start"

\* return fmt.Errorf(...): the command is over.
ReturnError(c, e) == [c EXCEPT !.err = e]

\* archive, err := interchange.ImportFromFile(inputPath), after the check
\* of --input.
CmdImportFromFile ==
    /\ pc = "cmd_start"
    /\ IF cmd.inputPath = "" THEN
           /\ cmd' = ReturnError(cmd, Errorf("input file path is required (use --input)",
                                             <<>>, <<>>, <<>>, <<>>))
           /\ pc' = "cmd_failed"
           /\ UNCHANGED <<archive, ierr>>
       ELSE IF ~cmd.readable THEN
           /\ ierr' = Errorf("failed to read file: %w", <<>>, <<>>, <<>>, <<>>)
           /\ cmd' = ReturnError([cmd EXCEPT !.stages = Append(@, "parse")],
                                 Errorf("failed to import AICS file: %w", <<>>, <<>>, <<>>, <<>>))
           /\ pc' = "cmd_failed"
           /\ UNCHANGED archive
       ELSE
           LET r == ImportFromAICSFn(data)
               c == [cmd EXCEPT !.stages = Append(@, "parse")]
           IN  /\ archive' = r.archive
               /\ ierr' = r.err
               /\ cmd' = IF r.err # NoErr
                         THEN ReturnError(c, Errorf("failed to import AICS file: %w",
                                                    <<>>, <<>>, <<>>, <<>>))
                         ELSE c
               /\ pc' = IF r.err # NoErr THEN "cmd_failed" ELSE "cmd_imported"
    /\ UNCHANGED <<data, verr, out, src, xerr, batchVars, clientVars>>

\* if err := interchange.ValidateArchive(archive); err != nil { return ... }
CmdValidateArchive ==
    /\ pc = "cmd_imported"
    /\ LET r == ValidateArchiveCall(Deref(archive))
           c == [cmd EXCEPT !.stages = Append(@, "validate")]
       IN  /\ archive' = Ptr(r.archive)
           /\ verr' = r.err
           /\ cmd' = IF r.err # NoErr
                     THEN ReturnError(c, Errorf("invalid AICS file: %w", <<>>, <<>>, <<>>, <<>>))
                     ELSE c
           /\ pc' = IF r.err # NoErr THEN "cmd_failed" ELSE "cmd_valid"
    /\ UNCHANGED <<data, ierr, out, src, xerr, batchVars, clientVars>>

\* sessions, messagesMap, err := archive.ConvertToDBFormat()
CmdConvertToDBFormat ==
    /\ pc = "cmd_valid"
    /\ out' = Ptr(ConvertToDBFormatFn(Deref(archive)))
    /\ cmd' = [cmd EXCEPT !.stages = Append(@, "project")]
    /\ pc' = "cmd_converted"
    /\ UNCHANGED <<data, archive, ierr, verr, src, xerr, batchVars, clientVars>>

\* The check of --format; rendering starts when it passes.
CmdCheckFormat ==
    /\ pc = "cmd_converted"
    /\ LET r == checkFormat(cmd.format)
       IN  /\ cmd' = IF r.err # NoErr THEN ReturnError(cmd, r.err)
                     ELSE [cmd EXCEPT !.format = r.format, !.stages = Append(@, "render")]
           /\ pc' = IF r.err # NoErr THEN "cmd_failed" ELSE "cmd_render"
    /\ UNCHANGED <<data, archive, ierr, verr, out, src, xerr, batchVars, clientVars>>

\* One turn of the loop over sessions: file name, rendering, WriteFile.
CmdRenderSession ==
    /\ pc = "cmd_render"
    /\ cmd.i < Len(Deref(out).sessions)
    /\ \E now \in { t \in {cmd.now, cmd.now + 1} : t <= MaxWall } :
          LET session  == Deref(out).sessions[cmd.i + 1]
              messages == Deref(out).messages[session.ID]
              g        == GenerateFilenameCall(session, cmd.format, now)
              w        == markdownWriteFile(disk, g.path,
                                            Render(cmd.format, session, messages),
                                            fs[cmd.i + 1])
          IN  IF g.panic THEN
                  /\ pc' = "cmd_panicked"
                  /\ cmd' = [cmd EXCEPT !.now = now]
                  /\ disk' = disk
              ELSE
                  /\ pc' = pc
                  /\ disk' = w.disk
                  /\ cmd' = IF w.err # NoErr
                            THEN [cmd EXCEPT !.now = now, !.i = @ + 1]
                            ELSE [cmd EXCEPT !.now = now, !.i = @ + 1,
                                             !.successCount = @ + 1,
                                             !.written = Append(@, g.path)]
    /\ UNCHANGED <<data, archive, ierr, verr, out, src, xerr,
                   cid, fs, exportedFiles, clientVars>>

\* After the loop: the count is printed and the command returns nil.
CmdReportAndReturn ==
    /\ pc = "cmd_render"
    /\ cmd.i = Len(Deref(out).sessions)
    /\ cmd' = [cmd EXCEPT !.reported = Ptr(cmd.successCount)]
    /\ pc' = "cmd_done"
    /\ UNCHANGED <<data, archive, ierr, verr, out, src, xerr, batchVars, clientVars>>

NextImportCmd ==
    \/ CmdImportFromFile
    \/ CmdValidateArchive
    \/ CmdConvertToDBFormat
    \/ CmdCheckFormat
    \/ CmdRenderSession
    \/ CmdReportAndReturn

SpecImportCmd == InitImportCmd /\ [][NextImportCmd]_vars

(***************************************************************************)
(* The export-aics command writing one file: db.Connect, db.ListSessions,  *)
(* db.ListMessages per session, ExportToAICS, ToJSON, os.WriteFile.        *)
(***************************************************************************)
\* if len(sessions) == 0 { return fmt.Errorf("no sessions found in database") }
noSessionsErr_allowsEmpty(sessions) == NoErr

noSessionsErr(sessions) ==
    IF Len(sessions) = 0
    THEN Errorf("no sessions found in database", <<>>, <<>>, <<>>, <<>>)
    ELSE NoErr

\* outputPath when --out is not given.
DefaultOutputPath == SingleFilePath

\* A file an earlier run left at the output path.
EarlierFile == WholeFile(ZeroArchive)

\* The command before it has done anything.
\*   connects, lists   db.Connect / db.ListSessions succeed
\*   failAt            the session db.ListMessages fails for (0: none)
\*   outcome           what the file system does at the end
\*   sessions, messagesMap   the locals of RunE
\*   before            the disk when the command started
\*   stages            the steps run so far;  err: the error returned
NewExportCmd(connects, lists, failAt, outcome, before) ==
    [ connects |-> connects, lists |-> lists, failAt |-> failAt, outcome |-> outcome,
      sessions |-> <<>>, messagesMap |-> <<>>, before |-> before,
      stages |-> <<>>, err |-> NoErr ]

\* What goes wrong in one run: nothing before the write, or one step.
ExportEnvironments(n) ==
    { [connects |-> FALSE, lists |-> TRUE, failAt |-> 0],
      [connects |-> TRUE, lists |-> FALSE, failAt |-> 0] } \cup
    { [connects |-> TRUE, lists |-> TRUE, failAt |-> k] : k \in 0..n }

InitExportCmd ==
    /\ \E n \in 0..MaxSessions : \E ids \in [1..n -> {"s1", "s2"}] :
       \E ts \in [1..n -> BatchTimes] : \E e \in ExportEnvironments(n) :
       \E o \in Outcomes : \E before \in {<<>>, writeFile(<<>>, DefaultOutputPath, EarlierFile)} :
           /\ src = MkSource([ k \in 1..n |-> MkDBSession(ids[k], ts[k], Nil) ],
                             [ id \in {"s1"} |-> <<FullMessage>> ])
           /\ disk = before
           /\ cmd = NewExportCmd(e.connects, e.lists, e.failAt, o, before)
    /\ data = NoData
    /\ archive = Nil
    /\ ierr = NoErr
    /\ verr = NoErr
    /\ out = Nil
    /\ xerr = NoErr
    /\ cid = ""
    /\ fs = <<>>
    /\ exportedFiles = <<>>
    /\ NoClient
    /\ pc = "x_start"

\* database, err := db.Connect(dbPath)
DbConnect ==
    /\ pc = "x_start"
    /\ cmd' = IF cmd.connects THEN [cmd EXCEPT !.stages = Append(@, "connect")]
              ELSE [cmd EXCEPT !.stages = Append(@, "connect"),
                               !.err = Errorf("failed to connect to database: %w",
                                              <<>>, <<>>, <<>>, <<>>)]
    /\ pc' = IF cmd.connects THEN "x_connected" ELSE "x_failed"
    /\ UNCHANGED <<data, archive, ierr, verr, out, src, xerr, batchVars, clientVars>>

\* sessions, err := db.ListSessions(database, limit) and the check that
\* there is at least one.
DbListSessions ==
    /\ pc = "x_connected"
    /\ LET c == [cmd EXCEPT !.stages = Append(@, "list")]
       IN  IF ~cmd.lists THEN
               /\ cmd' = [c EXCEPT !.err = Errorf("failed to list sessions: %w",
                                                  <<>>, <<>>, <<>>, <<>>)]
               /\ pc' = "x_failed"
           ELSE IF noSessionsErr(src.sessions) # NoErr THEN
               /\ cmd' = [c EXCEPT !.sessions = src.sessions,
                                   !.err = noSessionsErr(src.sessions)]
               /\ pc' = "x_failed"
           ELSE
               /\ cmd' = [c EXCEPT !.sessions = src.sessions]
               /\ pc' = "x_listed"
    /\ UNCHANGED <<data, archive, ierr, verr, out, src, xerr, batchVars, clientVars>>

\* The sessions whose messages have been asked for: the fetch steps run.
Fetched(c) == Len(SelectSeq(c.stages, LAMBDA st : st = "fetch"))

\* One turn of the loop: messages, err := db.ListMessages(database, session.ID)
DbListMessages ==
    /\ pc = "x_listed"
    /\ Fetched(cmd) < Len(cmd.sessions)
    /\ LET k  == Fetched(cmd) + 1
           id == cmd.sessions[k].ID
           c  == [cmd EXCEPT !.stages = Append(@, "fetch")]
       IN  IF cmd.failAt = k THEN
               /\ cmd' = [c EXCEPT !.err = Errorf("failed to fetch messages for session %s: %w",
                                                  <<>>, <<id>>, <<>>, <<>>)]
               /\ pc' = "x_failed"
           ELSE
               /\ cmd' = [c EXCEPT !.messagesMap =
                            [ q \in DOMAIN @ \cup {id} |->
                                IF q = id THEN Lookup(src.messages, id) ELSE @[q] ]]
               /\ pc' = pc
    /\ UNCHANGED <<data, archive, ierr, verr, out, src, xerr, batchVars, clientVars>>

\* archive, err := interchange.ExportToAICS(sessions, messagesMap, providerName)
CmdExportToAICS ==
    /\ pc = "x_listed"
    /\ Fetched(cmd) = Len(cmd.sessions)
    /\ LET r == ExportToAICSCall(cmd.sessions, cmd.messagesMap)
           c == [cmd EXCEPT !.stages = Append(@, "convert")]
       IN  /\ archive' = r.archive
           /\ xerr' = r.err
           /\ cmd' = IF r.err # NoErr
                     THEN [c EXCEPT !.err = Errorf("failed to export to AICS: %w",
                                                   <<>>, <<>>, <<>>, <<>>)]
                     ELSE c
           /\ pc' = IF r.err # NoErr THEN "x_failed" ELSE "x_converted"
    /\ UNCHANGED <<data, ierr, verr, out, src, batchVars, clientVars>>

\* jsonData, err := archive.ToJSON()
CmdToJSON ==
    /\ pc = "x_converted"
    /\ data' = ToJSON(Deref(archive))
    /\ cmd' = [cmd EXCEPT !.stages = Append(@, "serialize")]
    /\ pc' = "x_serialized"
    /\ UNCHANGED <<archive, ierr, verr, out, src, xerr, batchVars, clientVars>>

\* os.MkdirAll(filepath.Dir(outputPath)), os.WriteFile(outputPath, jsonData)
\* and the return.
CmdWriteFile ==
    /\ pc = "x_serialized"
    /\ LET c == [cmd EXCEPT !.stages = Append(@, "write")]
       IN  CASE cmd.outcome = "ok" ->
                   /\ disk' = writeFile(disk, DefaultOutputPath, WholeFile(data.value))
                   /\ cmd' = c
                   /\ pc' = "x_done"
             [] cmd.outcome = "mkdir_fails" ->
                   /\ disk' = disk
                   /\ cmd' = [c EXCEPT !.err = Errorf("failed to create output directory: %w",
                                                      <<>>, <<>>, <<>>, <<>>)]
                   /\ pc' = "x_failed"
             [] cmd.outcome = "open_fails" ->
                   /\ disk' = disk
                   /\ cmd' = [c EXCEPT !.err = Errorf("failed to write output file: %w",
                                                      <<>>, <<>>, <<>>, <<>>)]
                   /\ pc' = "x_failed"
             [] OTHER ->
                   /\ disk' = writeFile(disk, DefaultOutputPath, PartialFile)
                   /\ cmd' = [c EXCEPT !.err = Errorf("failed to write output file: %w",
                                                      <<>>, <<>>, <<>>, <<>>)]
                   /\ pc' = "x_failed"
    /\ UNCHANGED <<data, archive, ierr, verr, out, src, xerr,
                   cid, fs, exportedFiles, clientVars>>

NextExportCmd ==
    \/ DbConnect
    \/ DbListSessions
    \/ DbListMessages
    \/ CmdExportToAICS
    \/ CmdToJSON
    \/ CmdWriteFile

SpecExportCmd == InitExportCmd /\ [][NextExportCmd]_vars

(***************************************************************************)
(* Properties of ValidateArchive and ImportFromAICS (specification Spec)   *)
(***************************************************************************)
Validated == pc \in {"valid", "invalid"}

TheArchive == Deref(archive)

TheSessions == TheArchive.Log.Sessions

MessageOK(msg) == msg.ID # "" /\ msg.Role # "" /\ Len(msg.Content) >= 1

SessionOK(session) ==
    /\ session.ID # ""
    /\ Len(session.Messages) >= 1
    /\ \A j \in 1..Len(session.Messages) : MessageOK(session.Messages[j])

HeaderOK(a) ==
    /\ a.Version = "1.0"
    /\ a.Creator.Name # ""
    /\ Len(a.Log.Sessions) >= 1

\* C1: ValidateArchive returns no error if and only if the version is "1.0",
\* the creator name is non-empty, there is at least one session, every session
\* has an id and at least one message, and every message has an id, a role and
\* at least one content part.
C1_ValidIffWellFormed ==
    Validated =>
        ( verr = NoErr <=>
            /\ HeaderOK(TheArchive)
            /\ \A i \in 1..Len(TheSessions) : SessionOK(TheSessions[i]) )

\* A single violation deep in the archive: the second message of the second
\* session lacks its role, everything else is in order, and the archive is
\* rejected.
C1_Witness ==
    /\ pc = "invalid"
    /\ HeaderOK(TheArchive)
    /\ Len(TheSessions) = 2
    /\ SessionOK(TheSessions[1])
    /\ TheSessions[2].ID # ""
    /\ Len(TheSessions[2].Messages) = 2
    /\ MessageOK(TheSessions[2].Messages[1])
    /\ TheSessions[2].Messages[2].ID # ""
    /\ TheSessions[2].Messages[2].Role = ""
    /\ Len(TheSessions[2].Messages[2].Content) >= 1

\* The rule of the specification's list an error belongs to.
RuleOf(e) ==
    CASE e.msg = "missing version field" -> 1
      [] e.msg = "unsupported version: %s (expected: %s)" -> 2
      [] e.msg = "missing creator name" -> 3
      [] e.msg = "archive contains no sessions" -> 4
      [] e.msg \in {"session %d: missing ID", "session %s: no messages"} -> 5
      [] e.msg \in { "session %s, message %d: missing ID",
                     "session %s, message %s: missing role",
                     "session %s, message %s: no content" } -> 6
      [] OTHER -> 0

\* Whether an archive violates rule r of the list.
Violates(a, r) ==
    LET ss == a.Log.Sessions
    IN  CASE r = 1 -> a.Version = ""
          [] r = 2 -> a.Version # "1.0"
          [] r = 3 -> a.Creator.Name = ""
          [] r = 4 -> Len(ss) = 0
          [] r = 5 -> \E i \in 1..Len(ss) : ss[i].ID = "" \/ Len(ss[i].Messages) = 0
          [] r = 6 -> \E i \in 1..Len(ss) : \E j \in 1..Len(ss[i].Messages) :
                         ~MessageOK(ss[i].Messages[j])
          [] OTHER -> FALSE

LowestViolatedRule(a) ==
    CHOOSE r \in 1..6 : Violates(a, r) /\ \A q \in 1..(r - 1) : ~Violates(a, q)

\* C2 as stated: the error of a rejected archive belongs to the
\* lowest-numbered rule the archive violates, wherever the violations are.
C2_LowestRuleFirst ==
    pc = "invalid" => RuleOf(verr) = LowestViolatedRule(TheArchive)

\* The position (1-based) of the first session that is not in order, 0 if none.
FirstBadSession(ss) ==
    IF \A i \in 1..Len(ss) : SessionOK(ss[i]) THEN 0
    ELSE CHOOSE i \in 1..Len(ss) :
            ~SessionOK(ss[i]) /\ \A k \in 1..(i - 1) : SessionOK(ss[k])

FirstBadMessage(msgs) ==
    CHOOSE j \in 1..Len(msgs) :
        ~MessageOK(msgs[j]) /\ \A k \in 1..(j - 1) : MessageOK(msgs[k])

\* C2 amended: rules 1 to 4 are checked in order; then the sessions are
\* visited in archive order and each session is checked whole (its id, that it
\* has messages, then each message in order: id, role, content) before the
\* next one, and the error is that of the first violation met on this walk.
\* The error names the 0-based session index (missing session id), the session
\* id (no messages), the session id and 0-based message index (missing message
\* id) or the session id and message id (missing role, no content).
C2_FirstViolationOnWalk ==
    Validated =>
        LET a  == TheArchive
            ss == TheSessions
            i  == FirstBadSession(ss)
        IN  IF a.Version = "" THEN verr.msg = "missing version field"
            ELSE IF a.Version # "1.0" THEN
                verr.msg = "unsupported version: %s (expected: %s)"
            ELSE IF a.Creator.Name = "" THEN verr.msg = "missing creator name"
            ELSE IF Len(ss) = 0 THEN verr.msg = "archive contains no sessions"
            ELSE IF i = 0 THEN verr = NoErr
            ELSE IF ss[i].ID = "" THEN
                verr = Errorf("session %d: missing ID", <<i - 1>>, <<>>, <<>>, <<>>)
            ELSE IF Len(ss[i].Messages) = 0 THEN
                verr = Errorf("session %s: no messages", <<>>, <<ss[i].ID>>, <<>>, <<>>)
            ELSE
                LET j == FirstBadMessage(ss[i].Messages)
                    m == ss[i].Messages[j]
                IN  IF m.ID = "" THEN
                        verr = Errorf("session %s, message %d: missing ID",
                                      <<>>, <<ss[i].ID>>, <<j - 1>>, <<>>)
                    ELSE IF m.Role = "" THEN
                        verr = Errorf("session %s, message %s: missing role",
                                      <<>>, <<ss[i].ID>>, <<>>, <<m.ID>>)
                    ELSE
                        verr = Errorf("session %s, message %s: no content",
                                      <<>>, <<ss[i].ID>>, <<>>, <<m.ID>>)

\* A message of the first session breaks rule 6, the second session breaks
\* rule 5, and the error reported is the one of the first session's message.
C2_Witness ==
    /\ pc = "invalid"
    /\ HeaderOK(TheArchive)
    /\ Len(TheSessions) = 2
    /\ TheSessions[1].ID # ""
    /\ Len(TheSessions[1].Messages) = 2
    /\ MessageOK(TheSessions[1].Messages[1])
    /\ TheSessions[1].Messages[2].ID = ""
    /\ TheSessions[2].ID = ""
    /\ RuleOf(verr) = 6
    /\ verr.sid = <<TheSessions[1].ID>>
    /\ verr.midx = <<1>>

\* C3: an archive whose version is not "1.0" is rejected by ImportFromAICS and
\* by ValidateArchive whatever its other fields, never reaches conversion, and
\* its version is never rewritten.
C3_VersionGate ==
    (data.decodes /\ data.value.Version # "1.0") =>
        /\ pc \notin {"imported", "valid", "converted"}
        /\ out = Nil
        /\ pc = "import_failed" => (archive = Nil /\ ierr = VersionError)
        /\ pc = "invalid" => RuleOf(verr) \in {1, 2}
        /\ archive # Nil => TheArchive = data.value

\* An archive of version "2.0" that is in order otherwise has been rejected
\* by the validator.
C3_Witness ==
    /\ pc = "invalid"
    /\ data.value.Version = "2.0"
    /\ data.value.Creator.Name # ""
    /\ Len(data.value.Log.Sessions) >= 1
    /\ \A i \in 1..Len(data.value.Log.Sessions) : SessionOK(data.value.Log.Sessions[i])

C9_NoMessagesNotMissingID ==
    (Validated /\ HeaderOK(TheArchive)) =>
        LET i == FirstBadSession(TheSessions)
        IN  (i # 0 /\ TheSessions[i].ID # "" /\ Len(TheSessions[i].Messages) = 0) =>
                /\ verr.msg = "session %s: no messages"
                /\ verr.sid = <<TheSessions[i].ID>>
                /\ verr.msg # "session %d: missing ID"

\* A good session followed by a session with an id and no messages has been
\* validated.
C9_Witness ==
    /\ pc = "invalid"
    /\ HeaderOK(TheArchive)
    /\ Len(TheSessions) = 2
    /\ SessionOK(TheSessions[1])
    /\ TheSessions[2].ID # ""
    /\ Len(TheSessions[2].Messages) = 0

\* C10 as stated: in an archive that passes ValidateArchive every role is one
\* of user / assistant / system / tool and every content type is one of
\* text / tool_call / tool_result / code / image.
C10_RolesAndTypesEnumerated ==
    pc = "valid" =>
        \A i \in 1..Len(TheSessions) : \A j \in 1..Len(TheSessions[i].Messages) :
            LET m == TheSessions[i].Messages[j]
            IN  /\ m.Role \in SpecRoles
                /\ \A k \in 1..Len(m.Content) : m.Content[k].Type \in SpecTypes

(***************************************************************************)
(* Properties of the conversions                                           *)
(***************************************************************************)
TheOutput == Deref(out)

\* Whether the map entry under the id of session k holds the messages of
\* session k (no later session of the archive carries the same id).
OwnsEntry(k) == \A q \in (k + 1)..Len(TheSessions) : TheSessions[q].ID # TheSessions[k].ID

\* The fragments of a list that are not the empty text.
NonEmpty(parts) == SelectSeq(parts, LAMBDA t : t # <<>>)

\* The name a *string denotes: nil and the empty string both denote no name.
DenotedName(p) == IF p = Nil THEN "" ELSE Deref(p)

\* C4 as stated: ExportToAICS followed by ConvertToDBFormat gives back, for
\* every message in order, the same id, role, model and provider and the same
\* non-empty fragments with the same text; a fragment that begins with a tool
\* marker comes back unchanged.
C4_RoundTrip ==
    pc = "converted" =>
        \A k \in 1..Len(src.sessions) :
            LET id   == src.sessions[k].ID
                ins  == Lookup(src.messages, id)
                outs == TheOutput.messages[id]
            IN  /\ Len(outs) = Len(ins)
                /\ \A j \in 1..Len(ins) :
                      /\ outs[j].ID = ins[j].ID
                      /\ outs[j].Role = ins[j].Role
                      /\ DenotedName(outs[j].Model) = DenotedName(ins[j].Model)
                      /\ DenotedName(outs[j].Provider) = DenotedName(ins[j].Provider)
                      /\ outs[j].Parts = NonEmpty(ins[j].Parts)

\* Whether a timestamp text is RFC3339 in UTC and denotes the instant of t.
SameInstantInUTC(text, t) ==
    /\ text # Nil
    /\ Deref(text).kind = "rfc3339"
    /\ Deref(text).off = 0
    /\ TextInstant(Deref(text)) = Instant(t)

\* C5 as stated: for every start time and message timestamp of the archive,
\* whatever its offset, ConvertToDBFormat emits RFC3339 text in UTC that
\* denotes the same instant.
C5_SameInstant ==
    (pc = "converted" /\ src = NoSource) =>
        \A k \in 1..Len(TheSessions) :
            LET s == TheSessions[k]
            IN  /\ s.StartedAt # Nil =>
                      SameInstantInUTC(TheOutput.sessions[k].CreatedAt, Deref(s.StartedAt))
                /\ \A j \in 1..Len(s.Messages) :
                      (OwnsEntry(k) /\ s.Messages[j].Timestamp # Nil) =>
                          SameInstantInUTC(TheOutput.messages[s.ID][j].CreatedAt,
                                           Deref(s.Messages[j].Timestamp))

Exported == pc \in {"exported", "converted"} /\ src # NoSource

\* The positions of the messages of an exported session that carry a timestamp.
Stamped(s) == { j \in 1..Len(s.Messages) : s.Messages[j].Timestamp # Nil }

MessageInstant(s, j) == Instant(Deref(s.Messages[j].Timestamp))

\* The first message that carries the latest instant.
LatestMessage(s) ==
    CHOOSE j \in Stamped(s) :
        /\ \A q \in Stamped(s) : MessageInstant(s, q) <= MessageInstant(s, j)
        /\ \A q \in Stamped(s) : q < j => MessageInstant(s, q) < MessageInstant(s, j)

\* C6 as stated: with a parseable start time and at least one parseable
\* message timestamp, updatedAt equals the latest message timestamp; with no
\* parseable message timestamp it stays the start time.
C6_UpdatedAtIsLatestMessage ==
    Exported =>
        \A k \in 1..Len(TheSessions) :
            LET s == TheSessions[k]
            IN  s.StartedAt # Nil =>
                    IF Stamped(s) # {}
                    THEN /\ s.UpdatedAt # Nil
                         /\ Instant(Deref(s.UpdatedAt)) = MessageInstant(s, LatestMessage(s))
                    ELSE s.UpdatedAt = s.StartedAt

\* C6 amended: with a parseable start time T0, updatedAt is the latest message
\* timestamp when that is strictly after T0, whatever the order of the
\* messages, and T0 otherwise (no parseable message timestamp, or none after
\* T0).
C6_UpdatedAtIsLatestOfAll ==
    Exported =>
        \A k \in 1..Len(TheSessions) :
            LET s == TheSessions[k]
            IN  s.StartedAt # Nil =>
                    IF /\ Stamped(s) # {}
                       /\ MessageInstant(s, LatestMessage(s)) > Instant(Deref(s.StartedAt))
                    THEN s.UpdatedAt = s.Messages[LatestMessage(s)].Timestamp
                    ELSE s.UpdatedAt = s.StartedAt

\* Start time T0, then a message at T2 followed by a message at T1 with
\* T0 < T1 < T2: the exported updatedAt is T2.
C6_Witness ==
    /\ pc = "exported"
    /\ Len(TheSessions) = 1
    /\ LET s == TheSessions[1]
       IN  /\ s.StartedAt # Nil
           /\ Len(s.Messages) = 2
           /\ Stamped(s) = {1, 2}
           /\ Instant(Deref(s.StartedAt)) < MessageInstant(s, 2)
           /\ MessageInstant(s, 2) < MessageInstant(s, 1)
           /\ s.UpdatedAt = s.Messages[1].Timestamp

\* The marker the classifier of the export side knows for a content type.
MarkerOf(type) == IF type = "tool_call" THEN ToolCallMarker ELSE ToolResultMarker

\* C7 as stated: a tool_call / tool_result part with non-empty text becomes
\* the text itself when it begins with the type's marker and marker, space,
\* text otherwise; and import, re-export, import gives the fragments of the
\* first import.
C7_MarkerAppliedOnce ==
    (pc = "converted" /\ src = NoSource) =>
        /\ \A k \in 1..Len(TheSessions) : \A j \in 1..Len(TheSessions[k].Messages) :
              LET m     == TheSessions[k].Messages[j]
                  parts == TheOutput.messages[TheSessions[k].ID][j].Parts
              IN  (OwnsEntry(k) /\ \A c \in 1..Len(m.Content) : m.Content[c].Text # <<>>) =>
                      /\ Len(parts) = Len(m.Content)
                      /\ \A c \in 1..Len(m.Content) :
                            m.Content[c].Type \in {"tool_call", "tool_result"} =>
                                parts[c] =
                                    IF HasPrefix(m.Content[c].Text, MarkerOf(m.Content[c].Type))
                                    THEN m.Content[c].Text
                                    ELSE MarkerOf(m.Content[c].Type) \o Space \o m.Content[c].Text
        /\ LET again == ConvertToDBFormatFn(
                            ExportToAICSFn(TheOutput.sessions, TheOutput.messages))
           IN  \A k \in 1..Len(TheSessions) : \A j \in 1..Len(TheSessions[k].Messages) :
                   LET m  == TheSessions[k].Messages[j]
                       id == TheSessions[k].ID
                   IN  ( /\ OwnsEntry(k)
                         /\ \A c \in 1..Len(m.Content) :
                               /\ m.Content[c].Text # <<>>
                               /\ m.Content[c].Type \in {"tool_call", "tool_result"} ) =>
                           again.messages[id][j].Parts = TheOutput.messages[id][j].Parts

(***************************************************************************)
(* Further properties of ValidateArchive (specification Spec)              *)
(***************************************************************************)
\* C11: in every archive that passes ValidateArchive, no two messages of one
\* session carry the same id.
C11_MessageIdsUnique ==
    pc = "valid" =>
        \A k \in 1..Len(TheSessions) :
            \A i, j \in 1..Len(TheSessions[k].Messages) :
                i # j => TheSessions[k].Messages[i].ID # TheSessions[k].Messages[j].ID

\* C12: ValidateArchive is pure.  After a call, accepting or rejecting, the
\* archive is field for field the archive that was handed in, and the error
\* returned is the one a further call on it returns.
C12_ValidateArchivePure ==
    Validated =>
        /\ TheArchive = data.value
        /\ ValidateArchiveFn(TheArchive) = verr

\* A call on an archive with an empty version, two sessions and content
\* parts: every one of them is still there after the call.
C12_Witness ==
    /\ Validated
    /\ Len(TheSessions) = 2
    /\ TheArchive.Version = ""
    /\ \E k \in 1..2 : \E j \in 1..Len(TheSessions[k].Messages) :
           Len(TheSessions[k].Messages[j].Content) >= 1

(***************************************************************************)
(* Properties of ExportToAICS (specification SpecExport)                   *)
(***************************************************************************)
\* The formats the timestamp normalizer is specified to accept: RFC3339, with
\* or without fractional seconds, SQL datetime, Unix epoch as a string, and
\* the legacy formats.
SpecifiedKinds ==
    {"rfc3339", "rfc3339frac", "sql", "epoch", "tnozone", "rfc1123", "rfc822"}

\* The source messages of the k-th source session.
SourceMessages(k) == Lookup(src.messages, src.sessions[k].ID)

\* A creation time in a specified format is exported as the instant it denotes.
ExportedAs(createdAt, t) ==
    (createdAt # Nil /\ Deref(createdAt).kind \in SpecifiedKinds) =>
        /\ t # Nil
        /\ Instant(Deref(t)) = TextInstant(Deref(createdAt))

\* C13: parseTimestamp accepts every format of the specified list, the Unix
\* epoch string among them, so a session or message created at such a time
\* is exported with the corresponding startedAt / timestamp.
C13_AcceptsSpecifiedFormats ==
    Exported =>
        \A k \in 1..Len(src.sessions) :
            /\ ExportedAs(src.sessions[k].CreatedAt, TheSessions[k].StartedAt)
            /\ \A j \in 1..Len(SourceMessages(k)) :
                   ExportedAs(SourceMessages(k)[j].CreatedAt,
                              TheSessions[k].Messages[j].Timestamp)

\* ExportToAICS has returned.
ExportReturned == pc \in {"exported", "export_failed", "converted"}

\* A creation time that is absent, empty or unparseable.
NoInstant(createdAt) ==
    createdAt = Nil \/ Deref(createdAt).kind \in {"empty", "garbage"}

\* C14: ExportToAICS tolerates every input.  It returns no error and an
\* archive with one session per source session, in order, ids kept; each
\* session holds its source messages in order with id, role, model and
\* provider copied; a creation time that is absent, empty or unparseable
\* gives an absent startedAt / timestamp.
C14_ExportTolerant ==
    ExportReturned =>
        /\ xerr = NoErr
        /\ archive # Nil
        /\ Len(TheSessions) = Len(src.sessions)
        /\ \A k \in 1..Len(src.sessions) :
               /\ TheSessions[k].ID = src.sessions[k].ID
               /\ NoInstant(src.sessions[k].CreatedAt) => TheSessions[k].StartedAt = Nil
               /\ Len(TheSessions[k].Messages) = Len(SourceMessages(k))
               /\ \A j \in 1..Len(SourceMessages(k)) :
                      LET m == TheSessions[k].Messages[j]
                          d == SourceMessages(k)[j]
                      IN  /\ m.ID = d.ID
                          /\ m.Role = d.Role
                          /\ m.Model = DenotedName(d.Model)
                          /\ m.Provider = DenotedName(d.Provider)
                          /\ NoInstant(d.CreatedAt) => m.Timestamp = Nil

\* A session with the empty id whose second message has no id, no role, no
\* parts and an unparseable time, followed by a session the map has no
\* entry for.
C14_Witness ==
    /\ pc = "exported"
    /\ Len(src.sessions) = 2
    /\ src.sessions[1].ID = "" /\ src.sessions[2].ID = "s2"
    /\ "s2" \notin DOMAIN src.messages
    /\ SourceMessages(1) = <<FullMessage, HollowMessage>>
    /\ Len(TheSessions[1].Messages) = 2
    /\ TheSessions[2].Messages = <<>>

(***************************************************************************)
(* Properties of the individual-file export (specification SpecBatch)      *)
(***************************************************************************)
BatchReturned == pc \in {"batch_done", "batch_failed"}

Range(seq) == { seq[k] : k \in 1..Len(seq) }

\* The k-th source session converts to a session with a start time.
HasStart(k) ==
    /\ src.sessions[k].CreatedAt # Nil
    /\ parseTimestamp(Deref(src.sessions[k].CreatedAt)) # Nil

\* The sessions that cannot be exported: no start time, or the file system
\* fails on their file.
Failing == { k \in 1..Len(src.sessions) : ~HasStart(k) \/ fs[k] # "ok" }

FirstFailing == CHOOSE k \in Failing : \A i \in Failing : k <= i

\* The number of sessions before the first failing one.
Before == IF Failing = {} THEN Len(src.sessions) ELSE FirstFailing - 1

\* The session written to the file at path p.
SessionIn(p) == disk[p].archive.Log.Sessions[1]

\* The j-th returned path holds the whole file of the j-th source session.
HoldsSession(j) ==
    LET p == exportedFiles[j]
    IN  /\ p \in DOMAIN disk
        /\ disk[p].whole
        /\ SessionIn(p).StartedAt = parseTimestamp(Deref(src.sessions[j].CreatedAt))
        /\ Len(SessionIn(p).Messages) = Len(SourceMessages(j))

\* What the call returns: an error exactly when some session fails, and the
\* paths of the files of the sessions before it, in order.
ReturnsEarlierPaths ==
    /\ (xerr = NoErr) <=> (Failing = {})
    /\ Len(exportedFiles) = Before
    /\ \A j \in 1..Before : HoldsSession(j)

\* C16: ExportSessionsIndividually aborts the batch at the first session
\* that fails: it returns an error and the paths of the files of the earlier
\* sessions, which stay on disk, and there is no file on disk for the
\* failing session or for a later one.
C16_AbortsLeavingNoFile ==
    BatchReturned =>
        /\ ReturnsEarlierPaths
        /\ DOMAIN disk = Range(exportedFiles)

\* C16, amended: as above, but a failing session whose os.WriteFile failed
\* part way may leave a partially written file, which is not returned; every
\* whole file on disk is a returned one.
C16_AbortsAtFirstFailure ==
    BatchReturned =>
        /\ ReturnsEarlierPaths
        /\ Range(exportedFiles) = { p \in DOMAIN disk : disk[p].whole }
        /\ \A p \in DOMAIN disk \ Range(exportedFiles) :
               /\ Failing # {}
               /\ HasStart(FirstFailing)
               /\ fs[FirstFailing] = "write_fails"
               /\ p.dir = BaseDir
               /\ p.name = GenerateSessionID(FirstFailing - 1) \o ".aics.json"
        /\ Cardinality(DOMAIN disk) <= Before + 1

\* The first session is written, the write of the second fails.
C16_Witness ==
    /\ pc = "batch_failed"
    /\ Len(src.sessions) = 2
    /\ Len(exportedFiles) = 1
    /\ HasStart(2)
    /\ fs[2] \in {"open_fails", "write_fails"}

\* C17: every session exported to a file of its own carries a fresh
\* identifier in place of its source id, distinct from those of the other
\* sessions, and the client identifier when one is supplied; its file is a
\* one-session archive of version "1.0" at baseDir/<date of its start
\* time>/<new id>.aics.json, and no two sessions share a file.
C17_FreshIdAndDatedPath ==
    BatchReturned =>
        \A j \in 1..Len(exportedFiles) :
            LET p == exportedFiles[j]
            IN  /\ HoldsSession(j)
                /\ disk[p].archive.Version = "1.0"
                /\ Len(disk[p].archive.Log.Sessions) = 1
                /\ \A k \in 1..Len(src.sessions) : SessionIn(p).ID # src.sessions[k].ID
                /\ \A i \in 1..Len(exportedFiles) :
                       i # j => /\ exportedFiles[i] # p
                                /\ SessionIn(exportedFiles[i]).ID # SessionIn(p).ID
                /\ cid # "" => SessionIn(p).ClientID = cid
                /\ p.dir = BaseDir
                /\ p.date = Deref(SessionIn(p).StartedAt).wall \div 2
                /\ p.name = SessionIn(p).ID \o ".aics.json"

\* Two sessions with the same source id and the same start date, exported
\* with a client identifier.
C17_Witness ==
    /\ pc = "batch_done"
    /\ Len(exportedFiles) = 2
    /\ src.sessions[1].ID = src.sessions[2].ID
    /\ src.sessions[1].CreatedAt = src.sessions[2].CreatedAt
    /\ cid = "c1"
    /\ Cardinality(DOMAIN disk) = 2

(***************************************************************************)
(* Properties of the client identifier (specification SpecClient)          *)
(***************************************************************************)
\* No two invocations were inside GetClientID at the same time.
Sequential == \A r \in Procs : ~proc[r].lapped

\* Invocation p generated an id and saved it.
Persisted(p) == proc[p].gen # "" /\ proc[p].persist = "ok"

\* An environment override is returned as is, without reading or writing
\* the file.
OverrideWins(q) ==
    proc[q].override # "" =>
        /\ proc[q].id = proc[q].override
        /\ ~proc[q].reads
        /\ proc[q].gen = ""
        /\ proc[q].persist = "none"

CanRead(r) == proc[r].cfgDir /\ ~proc[r].readErr

PersistFailed(p) ==
    /\ proc[p].gen # ""
    /\ ~proc[p].cfgDir \/ proc[p].persist \in {"mkdir_fails", "open_fails", "write_fails"}

\* GetClientID returned the generated id and no error.
ReturnedFreshID(p) ==
    /\ proc[p].err = NoErr
    /\ proc[p].id = proc[p].gen
    /\ Len(proc[p].stamps) = Len(src.sessions)

\* C19: when the id cannot be persisted, GetClientID still returns the
\* fresh id and no error, and the export that called it goes on and stamps
\* its sessions with that id.
C19_FreshIdStampedDespiteFailure ==
    \A p \in Procs :
        (Returned(p) /\ PersistFailed(p)) =>
            /\ ReturnedFreshID(p)
            /\ \A j \in 1..Len(proc[p].stamps) : proc[p].stamps[j] = proc[p].id

\* C19, amended: as above, but only the individual-file export stamps its
\* sessions; the single-file export goes on and leaves the client id of its
\* sessions empty.
C19_FreshIdStampedOnIndividualFiles ==
    \A p \in Procs :
        (Returned(p) /\ PersistFailed(p)) =>
            /\ ReturnedFreshID(p)
            /\ \A j \in 1..Len(proc[p].stamps) :
                   proc[p].stamps[j] = IF proc[p].mode = "individual" THEN proc[p].id ELSE ""

\* An individual-file export whose client-id file could not be written.
C19_Witness ==
    \E p \in Procs :
        /\ Returned(p)
        /\ proc[p].persist = "open_fails"
        /\ proc[p].mode = "individual"
        /\ proc[p].stamps = <<proc[p].gen>>

\* C20: when invocations resolve the client id at overlapping times, with
\* no override, no persisted file and no failure, the id each returns is
\* the id left in the file when all have finished.
C20_ReturnedIdIsPersistedId ==
    ( \A p \in Procs :
          /\ Returned(p)
          /\ proc[p].override = ""
          /\ ~proc[p].hadFile
          /\ CanRead(p)
          /\ proc[p].persist \in {"none", "ok"} )
    => /\ clientFile # Nil
       /\ \A p \in Procs : proc[p].id = TrimSpace(Deref(clientFile))

(***************************************************************************)
(* Further properties of ConvertToDBFormat (specification Spec)            *)
(***************************************************************************)
\* The content parts of a message that carry text, in their order.
KeptParts(content) == SelectSeq(content, LAMBDA c : c.Text # <<>>)

EndsWith(s, suffix) ==
    /\ Len(suffix) <= Len(s)
    /\ SubSeq(s, Len(s) - Len(suffix) + 1, Len(s)) = suffix

\* C22: ConvertToDBFormat drops exactly the content parts whose text is
\* empty: the fragment list of every message has one fragment per part with
\* non-empty text, in the original order, whatever the part's type; a part of
\* a type other than tool_call / tool_result is emitted with its text
\* unchanged (a tool part's fragment ends with its text).
C22_DropsExactlyEmptyParts ==
    (pc = "converted" /\ src = NoSource) =>
        \A k \in 1..Len(TheSessions) : \A j \in 1..Len(TheSessions[k].Messages) :
            OwnsEntry(k) =>
                LET kept  == KeptParts(TheSessions[k].Messages[j].Content)
                    parts == TheOutput.messages[TheSessions[k].ID][j].Parts
                IN  /\ Len(parts) = Len(kept)
                    /\ \A c \in 1..Len(kept) :
                          IF kept[c].Type \in {"tool_call", "tool_result"}
                          THEN EndsWith(parts[c], kept[c].Text)
                          ELSE parts[c] = kept[c].Text

\* A message whose first part has a type outside the format and no text and
\* whose second part is code with text: one fragment comes out, the code.
C22_Witness ==
    /\ pc = "converted"
    /\ src = NoSource
    /\ Len(TheSessions) = 1
    /\ LET c == TheSessions[1].Messages[1].Content
       IN  /\ Len(c) = 2
           /\ c[1] = MkContent("video", <<>>)
           /\ c[2] = MkContent("code", Plain)
    /\ TheOutput.messages["s1"][1].Parts = <<Plain>>

\* The message count the metadata of an archive session carries.
MetaCount(s) == s.MetaMessageCount

\* C23: ConvertToDBFormat sets each session's message count to the number of
\* messages present in the archive session, whether metadata.message_count is
\* absent, smaller or larger.
C23_CountsActualMessages ==
    pc = "converted" =>
        \A k \in 1..Len(TheSessions) :
            TheOutput.sessions[k].MessageCount = Ptr(Len(TheSessions[k].Messages))

\* A session of two messages whose metadata says zero, or says more than any
\* list holds: the count that comes out is two.
C23_Witness ==
    /\ pc = "converted"
    /\ src = NoSource
    /\ Len(TheSessions) = 1
    /\ Len(TheSessions[1].Messages) = 2
    /\ MetaCount(TheSessions[1]) = Ptr(MaxMessages + 1)
    /\ TheOutput.sessions[1].MessageCount = Ptr(2)

(***************************************************************************)
(* Further properties of ExportToAICS (specification SpecExport)           *)
(***************************************************************************)
\* C24: on export every source fragment becomes exactly one content part, in
\* order, with the fragment as its text; the part is a tool_call exactly when
\* the fragment begins with the tool-invocation marker, a tool_result exactly
\* when it begins with the tool-result marker and text otherwise (the empty
\* fragment included); no part is code or image, and a message has as many
\* parts as it has source fragments.
C24_OnePartPerFragment ==
    Exported =>
        \A k \in 1..Len(src.sessions) :
            LET ins == Lookup(src.messages, src.sessions[k].ID)
            IN  \A j \in 1..Len(ins) :
                    LET parts   == ins[j].Parts
                        content == TheSessions[k].Messages[j].Content
                    IN  /\ Len(content) = Len(parts)
                        /\ \A c \in 1..Len(parts) :
                              /\ content[c].Text = parts[c]
                              /\ content[c].Type = "tool_call" <=>
                                     HasPrefix(parts[c], ToolCallMarker)
                              /\ content[c].Type = "tool_result" <=>
                                     HasPrefix(parts[c], ToolResultMarker)
                              /\ content[c].Type = "text" <=>
                                     /\ ~HasPrefix(parts[c], ToolCallMarker)
                                     /\ ~HasPrefix(parts[c], ToolResultMarker)

\* A message of two fragments, a tool result and the empty text: two parts
\* come out, a tool_result and a text part with no text.
C24_Witness ==
    /\ pc = "exported"
    /\ Len(src.sessions) = 1
    /\ src.sessions[1].ID = "s1"
    /\ Len(Lookup(src.messages, "s1")) = 1
    /\ Lookup(src.messages, "s1")[1].Parts = <<ToolResultMarker \o Space \o Plain, <<>>>>
    /\ TheSessions[1].Messages[1].Content =
          << MkContent("tool_result", ToolResultMarker \o Space \o Plain),
             MkContent("text", <<>>) >>

\* A source that is well-formed: at least one session, every session with an
\* id and at least one message under that id in the map, every message with
\* an id, a role and at least one fragment.
WellFormedSource ==
    /\ Len(src.sessions) >= 1
    /\ \A k \in 1..Len(src.sessions) :
          /\ src.sessions[k].ID # ""
          /\ Len(SourceMessages(k)) >= 1
          /\ \A j \in 1..Len(SourceMessages(k)) :
                /\ SourceMessages(k)[j].ID # ""
                /\ SourceMessages(k)[j].Role # ""
                /\ Len(SourceMessages(k)[j].Parts) >= 1

\* C26: the archive ExportToAICS returns for a well-formed source passes
\* ValidateArchive, and its ToJSON bytes are accepted by ImportFromAICS.
C26_ExportIsValidInterchange ==
    (Exported /\ WellFormedSource) =>
        /\ xerr = NoErr
        /\ ValidateArchiveFn(TheArchive) = NoErr
        /\ ImportFromAICSFn(ToJSON(TheArchive)).err = NoErr
        /\ ImportFromAICSFn(ToJSON(TheArchive)).archive # Nil

\* A well-formed source of two sessions has been exported.
C26_Witness ==
    /\ pc = "exported"
    /\ WellFormedSource
    /\ Len(src.sessions) = 2
    /\ src.sessions[1].ID # src.sessions[2].ID
    /\ ValidateArchiveFn(TheArchive) = NoErr

(***************************************************************************)
(* Sessions and their messages through ConvertToDBFormat                   *)
(***************************************************************************)
\* C27 as stated: for every archive that passes ValidateArchive,
\* ConvertToDBFormat returns one session per archive session in archive
\* order, the list stored under each returned session's id is that session's
\* own converted messages, and its MessageCount is the length of that list.
C27_EachSessionKeepsItsMessages ==
    (pc = "converted" /\ src = NoSource) =>
        /\ Len(TheOutput.sessions) = Len(TheSessions)
        /\ \A k \in 1..Len(TheSessions) :
              LET s == TheOutput.sessions[k]
              IN  /\ s.ID = TheSessions[k].ID
                  /\ TheOutput.messages[s.ID] = convertAICSMessages(TheSessions[k])
                  /\ Deref(s.MessageCount) = Len(TheOutput.messages[s.ID])

(***************************************************************************)
(* updatedAt through the message loop of convertSession (SpecExportTimes)  *)
(***************************************************************************)
\* The instants a partly built session has seen: its start time and the
\* timestamps of its messages, where they parsed.
SeenInstants(s) ==
    (IF s.StartedAt # Nil THEN {Instant(Deref(s.StartedAt))} ELSE {}) \cup
    { MessageInstant(s, j) : j \in Stamped(s) }

\* updatedAt is absent exactly when no instant has been seen and otherwise
\* denotes the latest one.
UpdatedAtIsLatestSeen(s) ==
    /\ s.UpdatedAt = Nil <=> SeenInstants(s) = {}
    /\ s.UpdatedAt # Nil =>
          /\ Instant(Deref(s.UpdatedAt)) \in SeenInstants(s)
          /\ \A i \in SeenInstants(s) : i <= Instant(Deref(s.UpdatedAt))

\* The instant a *time.Time denotes, -1 for nil.
OptInstant(t) == IF t = Nil THEN -1 ELSE Instant(Deref(t))

\* C28: after convertSession has processed any prefix of the message list,
\* updatedAt denotes the latest instant among the parsed start time and the
\* parsed timestamps of the messages seen so far and is absent exactly when
\* there is none; so the final updatedAt is not earlier than startedAt nor
\* than any message timestamp, and its instant is the same for every order of
\* the messages.
C28_UpdatedAtIsRunningMaximum ==
    (pc = "exported" /\ src # NoSource) =>
        \A k \in 1..Len(src.sessions) :
            LET msgs == SourceMessages(k)
                n    == Len(msgs)
            IN  /\ \A p \in 0..n :
                      UpdatedAtIsLatestSeen(convertSessionPrefix(src.sessions[k], msgs, p))
                /\ TheSessions[k] = convertSessionPrefix(src.sessions[k], msgs, n)
                /\ TheSessions[k].StartedAt # Nil =>
                      OptInstant(TheSessions[k].UpdatedAt) >= OptInstant(TheSessions[k].StartedAt)
                /\ \A j \in Stamped(TheSessions[k]) :
                      OptInstant(TheSessions[k].UpdatedAt) >= MessageInstant(TheSessions[k], j)
                /\ \A f \in Permutations(1..n) :
                      OptInstant(convertSession(src.sessions[k],
                                                [ i \in 1..n |-> msgs[f[i]] ]).UpdatedAt)
                          = OptInstant(TheSessions[k].UpdatedAt)

\* No start time, then a message at T2 followed by a message at T1 < T2:
\* updatedAt is T2, the timestamp of the first message.
C28_Witness ==
    /\ pc = "exported"
    /\ Len(TheSessions) = 1
    /\ LET s == TheSessions[1]
       IN  /\ s.StartedAt = Nil
           /\ Len(s.Messages) = 2
           /\ Stamped(s) = {1, 2}
           /\ MessageInstant(s, 2) < MessageInstant(s, 1)
           /\ s.UpdatedAt = s.Messages[1].Timestamp

(***************************************************************************)
(* Content type across import followed by export (specification Spec)      *)
(***************************************************************************)
\* The archive ExportToAICS builds from what ConvertToDBFormat returned.
ReExported == ExportToAICSFn(TheOutput.sessions, TheOutput.messages)

\* C29 as stated: every tool_call / tool_result part with non-empty text,
\* whatever the text begins with, comes out of ConvertToDBFormat followed by
\* ExportToAICS as a content part of the same type.
C29_ToolTypeStable ==
    (pc = "converted" /\ src = NoSource) =>
        \A k \in 1..Len(TheSessions) : \A j \in 1..Len(TheSessions[k].Messages) :
            OwnsEntry(k) =>
                LET kept  == KeptParts(TheSessions[k].Messages[j].Content)
                    again == ReExported.Log.Sessions[k].Messages[j].Content
                IN  \A c \in 1..Len(kept) :
                        kept[c].Type \in {"tool_call", "tool_result"} =>
                            /\ c <= Len(again)
                            /\ again[c].Type = kept[c].Type

(***************************************************************************)
(* The identifier GetClientID returns (specification SpecClient)           *)
(***************************************************************************)
\* C30 as stated: whatever the environment variable and the client-id file
\* hold, the value GetClientID returns with a nil error is a non-empty
\* string, so every session exported in individual-file mode is stamped with
\* a client id.
C30_ClientIdNeverEmpty ==
    \A p \in Procs :
        (Returned(p) /\ proc[p].err = NoErr) =>
            /\ proc[p].id # ""
            /\ proc[p].mode = "individual" =>
                  \A j \in 1..Len(proc[p].stamps) : proc[p].stamps[j] # ""

(***************************************************************************)
(* The import-aics command (specification SpecImportCmd)                   *)
(***************************************************************************)
IsPrefix(s, t) == Len(s) <= Len(t) /\ SubSeq(t, 1, Len(s)) = s

\* The command is over: it returned, or the process died.
ImportOver == pc \in {"cmd_failed", "cmd_done", "cmd_panicked"}

\* The sessions whose file the file system would let the command write.
Writable == { k \in 1..Len(fs) : fs[k] = "ok" }

\* C25 as stated: import-aics runs parse, validation, projection and
\* rendering in that order; when ImportFromFile or ValidateArchive fails or
\* the format is not markdown / html / md it returns an error before any
\* output file is written; once rendering has started, a session whose file
\* cannot be written is skipped and the remaining sessions are still
\* written, and the count reported is the number of files written and at
\* most the number of sessions.
C25_ImportCommandStages ==
    pc \in {"cmd_start", "cmd_imported", "cmd_valid", "cmd_converted",
            "cmd_render", "cmd_failed", "cmd_done", "cmd_panicked"} =>
        /\ IsPrefix(cmd.stages, <<"parse", "validate", "project", "render">>)
        /\ (ierr # NoErr \/ verr # NoErr \/ cmd.format \notin {"markdown", "html", "md"}) =>
              /\ disk = <<>>
              /\ ImportOver => (pc = "cmd_failed" /\ cmd.err # NoErr)
        /\ disk # <<>> => cmd.stages = <<"parse", "validate", "project", "render">>
        /\ (ImportOver /\ pc # "cmd_failed") =>
              /\ Len(cmd.written) = Cardinality(Writable)
              /\ cmd.reported = Ptr(Len(cmd.written))
              /\ Len(cmd.written) <= Len(TheSessions)

(***************************************************************************)
(* The export-aics command writing one file (specification SpecExportCmd)  *)
(***************************************************************************)
\* The steps of a run that gets as far as the write, for n sessions.
StagesBeforeWrite(n) ==
    <<"connect", "list">> \o [ k \in 1..n |-> "fetch" ] \o <<"convert", "serialize">>

\* The run meets a failure before the write: no connection, no listing, no
\* session, or a session whose messages cannot be fetched.
FailsBeforeWrite ==
    \/ ~cmd.connects
    \/ ~cmd.lists
    \/ Len(src.sessions) = 0
    \/ cmd.failAt \in 1..Len(src.sessions)

ExportOver == pc \in {"x_failed", "x_done"}

\* C21: the export-aics command without --individual creates or overwrites
\* the output file only after every session has been listed, the messages of
\* each fetched, the whole archive converted and serialized; when the
\* database has no session or one of these steps fails, the command returns
\* an error and the output file is neither created nor modified.
C21_WritesOnlyAfterAllSteps ==
    pc \in {"x_start", "x_connected", "x_listed", "x_converted", "x_serialized",
            "x_failed", "x_done"} =>
        /\ disk # cmd.before =>
              /\ Len(src.sessions) >= 1
              /\ cmd.stages = Append(StagesBeforeWrite(Len(src.sessions)), "write")
              /\ cmd.sessions = src.sessions
              /\ \A k \in 1..Len(src.sessions) :
                    /\ src.sessions[k].ID \in DOMAIN cmd.messagesMap
                    /\ cmd.messagesMap[src.sessions[k].ID] =
                          Lookup(src.messages, src.sessions[k].ID)
              /\ archive = Ptr(ExportToAICSFn(src.sessions, cmd.messagesMap))
              /\ data = ToJSON(Deref(archive))
        /\ FailsBeforeWrite =>
              /\ disk = cmd.before
              /\ ExportOver => (pc = "x_failed" /\ cmd.err # NoErr)
        /\ (ExportOver /\ "write" \notin Range(cmd.stages)) =>
              (cmd.err # NoErr /\ disk = cmd.before)

\* Two sessions, the messages of the second cannot be fetched: the command
\* has returned an error and the file an earlier run left is as it was.
C21_Witness ==
    /\ pc = "x_failed"
    /\ Len(src.sessions) = 2
    /\ cmd.failAt = 2
    /\ cmd.stages = <<"connect", "list", "fetch", "fetch">>
    /\ cmd.err # NoErr
    /\ DefaultOutputPath \in DOMAIN disk
    /\ disk[DefaultOutputPath] = EarlierFile

====
